---- MODULE Spec2Model ----
(***************************************************************************)
(* Certifiable Training: the DVM arithmetic primitives                     *)
(* (src/src/dvm/primitives.c) and the Merkle training chain                *)
(* (src/src/audit/merkle.c).                                               *)
(*                                                                         *)
(* C integers wider than TLC's own are carried as sign-magnitude numbers   *)
(* [neg, mag], mag a little-endian sequence of 15-bit limbs without        *)
(* leading zero limbs, so that int32_t, int64_t and uint64_t keep their    *)
(* true widths.                                                            *)
(***************************************************************************)
EXTENDS Integers, Sequences, FiniteSets, TLC

VARIABLES
    ctx,      \* ct_merkle_ctx_t of the caller
    ckpt,     \* ct_checkpoint_t of the caller
    rec,      \* ct_training_step_t buffer the caller hands to step as step_out
    call,     \* the last call on the chain: operation, arguments, status
    trail,    \* history: the last records of the current run of successful steps
    era,      \* history: has the chain faulted since the last restore?
    wire,     \* the buffer the caller serializes its checkpoint to
    script,   \* history: the inputs of the last init and of the steps taken since
    ar,       \* one call of a DVM primitive: inputs, then its outcome
    rng,      \* the caller's two ct_prng_t objects
    draws,    \* history: what ct_prng_next has returned on each since its init
    rcall,    \* the last call on the PRNG interface: operation, inputs, outcome
    cs,       \* a ct_comp_accum_t of the caller, what was added to it, its result
    rtree,    \* the caller's ct_reduction_tree_t and its node array
    rd,       \* the caller's batch, its reduction under way, what the calls returned
    pm,       \* the caller's ct_permutation_t
    bctx,     \* the caller's ct_batch_ctx_t
    pcall,    \* the last call on a permutation or a batch context, and its outcome
    shared    \* a fault record handed to calls of every layer, and the last of them

vars == <<ctx, ckpt, rec, call, trail, era, wire, script, ar, rng, draws, rcall, cs, rtree, rd,
          pm, bctx, pcall, shared>>

merkleVars == <<ctx, ckpt, rec, call, trail, era, wire, script>>

prngVars == <<rng, draws, rcall>>

sumVars == <<cs, rtree, rd>>

permVars == <<pm, bctx, pcall>>

\* what the calls on the Merkle chain leave alone
besideMerkle == <<wire, ar, prngVars, sumVars, permVars, shared>>

\* what the calls on the checkpoint buffer leave alone, the chain aside
besideCheckpoint == <<ar, prngVars, sumVars, permVars, shared>>

\* what the calls of the DVM primitives leave alone
besideArith == <<merkleVars, prngVars, sumVars, permVars, shared>>

\* what the calls on the PRNG interface leave alone
besidePrng == <<merkleVars, ar, sumVars, permVars, shared>>

\* what the calls on accumulators and reduction trees leave alone
besideSum == <<merkleVars, ar, prngVars, permVars, shared>>

\* what the calls on permutations and batch contexts leave alone
besidePerm == <<merkleVars, ar, prngVars, sumVars, shared>>

\* what the calls on the shared fault record leave alone
besideShared == <<merkleVars, ar, prngVars, sumVars, permVars>>

(***************************************************************************)
(* Wide integers                                                           *)
(***************************************************************************)

Base == 2^15

Limb(m, i) == IF i <= Len(m) THEN m[i] ELSE 0

RECURSIVE Norm(_)
Norm(m) ==
    IF m = <<>> THEN <<>>
    ELSE IF m[Len(m)] = 0 THEN Norm(SubSeq(m, 1, Len(m) - 1))
    ELSE m

RECURSIVE MagOfNat(_)
MagOfNat(n) == IF n = 0 THEN <<>> ELSE <<n % Base>> \o MagOfNat(n \div Base)

RECURSIVE MagAddC(_, _, _, _)
MagAddC(a, b, i, c) ==
    IF i > Len(a) /\ i > Len(b)
    THEN (IF c = 0 THEN <<>> ELSE <<c>>)
    ELSE LET s == Limb(a, i) + Limb(b, i) + c
         IN  <<s % Base>> \o MagAddC(a, b, i + 1, s \div Base)

MagAdd(a, b) == MagAddC(a, b, 1, 0)

RECURSIVE MagSubB(_, _, _, _)
MagSubB(a, b, i, br) ==
    IF i > Len(a) THEN <<>>
    ELSE LET d == Limb(a, i) - Limb(b, i) - br
         IN  IF d < 0 THEN <<d + Base>> \o MagSubB(a, b, i + 1, 1)
                      ELSE <<d>> \o MagSubB(a, b, i + 1, 0)

\* a - b for a >= b
MagSub(a, b) == Norm(MagSubB(a, b, 1, 0))

RECURSIVE MagCmpAt(_, _, _)
MagCmpAt(a, b, i) ==
    IF i = 0 THEN 0
    ELSE IF a[i] # b[i] THEN (IF a[i] < b[i] THEN -1 ELSE 1)
    ELSE MagCmpAt(a, b, i - 1)

MagCmp(a, b) ==
    IF Len(a) # Len(b) THEN (IF Len(a) < Len(b) THEN -1 ELSE 1)
    ELSE MagCmpAt(a, b, Len(a))

RECURSIVE MagMulSmallC(_, _, _, _)
MagMulSmallC(a, d, i, c) ==
    IF i > Len(a) THEN (IF c = 0 THEN <<>> ELSE <<c>>)
    ELSE LET p == a[i] * d + c
         IN  <<p % Base>> \o MagMulSmallC(a, d, i + 1, p \div Base)

\* a * d for one limb d
MagMulSmall(a, d) == IF d = 0 THEN <<>> ELSE MagMulSmallC(a, d, 1, 0)

MagShlLimbs(a, n) == IF a = <<>> THEN <<>> ELSE [i \in 1..n |-> 0] \o a

RECURSIVE MagMulAt(_, _, _)
MagMulAt(a, b, i) ==
    IF i > Len(b) THEN <<>>
    ELSE MagAdd(MagShlLimbs(MagMulSmall(a, b[i]), i - 1), MagMulAt(a, b, i + 1))

MagMul(a, b) == MagMulAt(a, b, 1)

\* a * 2^k
MagShl(a, k) == MagShlLimbs(MagMulSmall(a, 2^(k % 15)), k \div 15)

MagPow2(k) == MagShl(<<1>>, k)

RECURSIVE MagDivSmallR(_, _, _, _)
MagDivSmallR(a, d, i, r) ==
    IF i = 0 THEN <<>>
    ELSE LET cur == r * Base + a[i]
         IN  MagDivSmallR(a, d, i - 1, cur % d) \o <<cur \div d>>

\* floor(a / 2^k)
MagShr(a, k) ==
    IF k \div 15 >= Len(a) THEN <<>>
    ELSE LET top == SubSeq(a, k \div 15 + 1, Len(a))
         IN  Norm(MagDivSmallR(top, 2^(k % 15), Len(top), 0))

\* a mod 2^k
MagLow(a, k) ==
    LET w == k \div 15
        n == IF Len(a) <= w THEN Len(a) ELSE w + 1
    IN  Norm([i \in 1..n |-> IF i <= w THEN a[i] ELSE a[i] % 2^(k % 15)])

RECURSIVE MagDigit(_, _, _, _)
\* the largest d below 2^(t+1) above the bits already chosen with d * b <= r
MagDigit(r, b, t, d) ==
    IF t < 0 THEN d
    ELSE IF MagCmp(MagMulSmall(b, d + 2^t), r) <= 0
         THEN MagDigit(r, b, t - 1, d + 2^t)
         ELSE MagDigit(r, b, t - 1, d)

RECURSIVE MagDivModR(_, _, _, _)
MagDivModR(a, b, i, r) ==
    IF i = 0 THEN [q |-> <<>>, r |-> r]
    ELSE LET cur  == Norm(<<a[i]>> \o r)
             d    == MagDigit(cur, b, 14, 0)
             rest == MagDivModR(a, b, i - 1, MagSub(cur, MagMulSmall(b, d)))
         IN  [q |-> rest.q \o <<d>>, r |-> rest.r]

\* quotient and remainder of a by b # 0 (schoolbook, one limb at a time)
MagDivMod(a, b) ==
    LET qr == MagDivModR(a, b, Len(a), <<>>)
    IN  [q |-> Norm(qr.q), r |-> qr.r]

RECURSIVE LimbAnd(_, _)
LimbAnd(x, y) ==
    IF x = 0 \/ y = 0 THEN 0
    ELSE (x % 2) * (y % 2) + 2 * LimbAnd(x \div 2, y \div 2)

MagAnd(a, b) ==
    LET n == IF Len(a) < Len(b) THEN Len(a) ELSE Len(b)
    IN  Norm([i \in 1..n |-> LimbAnd(a[i], b[i])])

Z(neg, mag) == [neg |-> neg /\ mag # <<>>, mag |-> mag]

ZInt(i) == IF i < 0 THEN Z(TRUE, MagOfNat(-i)) ELSE Z(FALSE, MagOfNat(i))

ZNeg(x) == Z(~x.neg, x.mag)

ZAdd(x, y) ==
    IF x.neg = y.neg THEN Z(x.neg, MagAdd(x.mag, y.mag))
    ELSE IF MagCmp(x.mag, y.mag) >= 0 THEN Z(x.neg, MagSub(x.mag, y.mag))
    ELSE Z(y.neg, MagSub(y.mag, x.mag))

ZSub(x, y) == ZAdd(x, ZNeg(y))

ZMul(x, y) == Z(x.neg # y.neg, MagMul(x.mag, y.mag))

ZLt(x, y) ==
    IF x.neg # y.neg THEN x.neg
    ELSE IF x.neg THEN MagCmp(x.mag, y.mag) > 0
    ELSE MagCmp(x.mag, y.mag) < 0

ZLe(x, y) == x = y \/ ZLt(x, y)

ZPow2(k) == Z(FALSE, MagPow2(k))

\* the quotient truncated toward zero, y # 0
ZQuot(x, y) == Z(x.neg # y.neg, MagDivMod(x.mag, y.mag).q)

ZIsOdd(x) == Limb(x.mag, 1) % 2 = 1

(***************************************************************************)
(* C integer types and the operators of C on them                          *)
(***************************************************************************)

INT32_MAX == ZInt(2147483647)

INT32_MIN == ZNeg(ZPow2(31))

INT64_MAX == ZSub(ZPow2(63), ZInt(1))

INT64_MIN == ZNeg(ZPow2(63))

FIXED_FRAC_BITS == 16

CT_MAX_SHIFT == 62

InInt32(x) == ZLe(INT32_MIN, x) /\ ZLe(x, INT32_MAX)

InInt64(x) == ZLe(INT64_MIN, x) /\ ZLe(x, INT64_MAX)

\* the two's complement bit pattern of an int64_t, as a natural below 2^64
ToU64(x) == IF x.neg THEN MagSub(MagPow2(64), x.mag) ELSE x.mag

\* the int64_t whose bit pattern is the natural m below 2^64
FromU64(m) ==
    IF MagCmp(m, MagPow2(63)) >= 0
    THEN Z(TRUE, MagSub(MagPow2(64), m))
    ELSE Z(FALSE, m)

\* the int64_t a result wraps to on a two's complement machine
Wrap64(x) ==
    LET low == MagLow(x.mag, 64)
    IN  FromU64(IF x.neg /\ low # <<>> THEN MagSub(MagPow2(64), low) ELSE low)

Wrap32(x) ==
    LET low == MagLow(x.mag, 32)
        u   == IF x.neg /\ low # <<>> THEN MagSub(MagPow2(32), low) ELSE low
    IN  IF MagCmp(u, MagPow2(31)) >= 0
        THEN Z(TRUE, MagSub(MagPow2(32), u))
        ELSE Z(FALSE, u)

\* x & y on int64_t
And64(x, y) == FromU64(MagAnd(ToU64(x), ToU64(y)))

\* x >> k on int64_t (arithmetic: the sign bit is shifted in)
Shr64(x, k) ==
    IF x.neg
    THEN Z(TRUE, MagShr(MagAdd(x.mag, MagSub(MagPow2(k), <<1>>)), k))
    ELSE Z(FALSE, MagShr(x.mag, k))

\* x << k on int64_t when the result is representable
Shl64(x, k) == Z(x.neg, MagShl(x.mag, k))

(***************************************************************************)
(* Fault flags (ct_types.h)                                                *)
(***************************************************************************)

FaultFlags(o, u, z, d, g) ==
    [null |-> FALSE, overflow |-> o, underflow |-> u, div_zero |-> z,
     domain |-> d, grad_floor |-> g]

NoFaults == FaultFlags(0, 0, 0, 0, 0)

\* a null ct_fault_flags_t pointer
NullFaults == [NoFaults EXCEPT !.null = TRUE]

\* if (faults) faults->flag = 1
SetFault(faults, flag) ==
    IF faults.null THEN faults ELSE [faults EXCEPT ![flag] = 1]

\* a fault test that looks at the overflow flag alone
has_overflow_fault(f) == f.overflow = 1

ct_has_fault(f) ==
    f.overflow = 1 \/ f.underflow = 1 \/ f.div_zero = 1 \/ f.domain = 1

ct_clear_faults(f) ==
    [f EXCEPT !.overflow = 0, !.underflow = 0, !.div_zero = 0,
              !.domain = 0, !.grad_floor = 0]

(***************************************************************************)
(* DVM primitives (primitives.c).  A primitive yields its return value and *)
(* the fault record as it leaves it.  Where the C code has undefined       *)
(* behaviour (signed overflow in << and in /) the primitive yields the set *)
(* of outcomes a build produces: the wrapped two's complement value, or a  *)
(* trap (the x86 idiv fault, a sanitizer abort).                           *)
(***************************************************************************)

Ret(val, faults) == [trap |-> FALSE, val |-> val, faults |-> faults]

Trap(faults) == [trap |-> TRUE, val |-> ZInt(0), faults |-> faults]

\* a clamp that writes the flag into a record of its own making
clamp32_fresh_record(x, faults) ==
    IF ZLt(INT32_MAX, x) THEN Ret(INT32_MAX, SetFault(ct_clear_faults(faults), "overflow"))
    ELSE IF ZLt(x, INT32_MIN) THEN Ret(INT32_MIN, SetFault(ct_clear_faults(faults), "underflow"))
    ELSE Ret(x, faults)

dvm_clamp32(x, faults) ==
    IF ZLt(INT32_MAX, x) THEN Ret(INT32_MAX, SetFault(faults, "overflow"))
    ELSE IF ZLt(x, INT32_MIN) THEN Ret(INT32_MIN, SetFault(faults, "underflow"))
    ELSE Ret(x, faults)

dvm_add(a, b, faults) == dvm_clamp32(ZAdd(a, b), faults)

dvm_sub(a, b, faults) == dvm_clamp32(ZSub(a, b), faults)

\* rounding that sends every tie up (round half up) instead of to even
round_shift_half_up(x, shift, faults) ==
    IF shift > CT_MAX_SHIFT THEN Ret(ZInt(0), SetFault(faults, "domain"))
    ELSE IF shift = 0 THEN dvm_clamp32(x, faults)
    ELSE LET mask     == ZSub(Shl64(ZInt(1), shift), ZInt(1))
             halfway  == Shl64(ZInt(1), shift - 1)
             fraction == And64(x, mask)
             quotient == Shr64(x, shift)
             result   == IF ZLt(fraction, halfway) THEN quotient
                         ELSE ZAdd(quotient, ZInt(1))
         IN  dvm_clamp32(result, faults)

dvm_round_shift_rne(x, shift, faults) ==
    IF shift > CT_MAX_SHIFT THEN Ret(ZInt(0), SetFault(faults, "domain"))
    ELSE IF shift = 0 THEN dvm_clamp32(x, faults)
    ELSE LET mask     == ZSub(Shl64(ZInt(1), shift), ZInt(1))
             halfway  == Shl64(ZInt(1), shift - 1)
             fraction == And64(x, mask)
             quotient == Shr64(x, shift)
             result   == IF ZLt(fraction, halfway) THEN quotient
                         ELSE IF ZLt(halfway, fraction) THEN ZAdd(quotient, ZInt(1))
                         ELSE ZAdd(quotient, And64(quotient, ZInt(1)))
         IN  dvm_clamp32(result, faults)

dvm_mul(a, b, faults) == dvm_round_shift_rne(ZMul(a, b), FIXED_FRAC_BITS, faults)

\* a / b on int32_t: INT32_MIN / -1 overflows, which C leaves undefined
dvm_div_int32(a, b, faults) ==
    IF b = ZInt(0) THEN {Ret(ZInt(0), SetFault(faults, "div_zero"))}
    ELSE IF InInt32(ZQuot(a, b)) THEN {Ret(ZQuot(a, b), faults)}
    ELSE {Ret(Wrap32(ZQuot(a, b)), faults), Trap(faults)}

\* (int64_t)a << frac_bits overflows for large a or frac_bits, and wide / b
\* overflows for INT64_MIN / -1: both undefined in C
dvm_div_q(a, b, frac_bits, faults) ==
    IF b = ZInt(0) THEN {Ret(ZInt(0), SetFault(faults, "div_zero"))}
    ELSE IF frac_bits > CT_MAX_SHIFT THEN {Ret(ZInt(0), SetFault(faults, "domain"))}
    ELSE LET exact == Shl64(a, frac_bits)
             wide  == Wrap64(exact)
             quot  == ZQuot(wide, b)
             value == {dvm_clamp32(Wrap64(quot), faults)}
         IN  IF InInt64(exact) /\ InInt64(quot) THEN value
             ELSE value \cup {Trap(faults)}

dvm_abs64_sat(x, faults) ==
    IF x = INT64_MIN THEN Ret(INT64_MAX, SetFault(faults, "overflow"))
    ELSE Ret(IF x.neg THEN ZNeg(x) ELSE x, faults)

(***************************************************************************)
(* Calls of the DVM primitives: the inputs are drawn in the initial state  *)
(* and one action per primitive applies it.                                *)
(***************************************************************************)

\* inputs reach this far from 0, from the int32_t limits and from the ties
ArithSpan == 2

\* int32_t inputs: small values, both ends of the range, multiples of 0.5 in Q16.16
Int32Samples ==
    {ZInt(i) : i \in -ArithSpan..ArithSpan}
    \cup {ZSub(INT32_MAX, ZInt(d)) : d \in 0..(ArithSpan - 1)}
    \cup {ZAdd(INT32_MIN, ZInt(d)) : d \in 0..(ArithSpan - 1)}
    \cup {ZInt(j * 32768) : j \in 1..(ArithSpan + 1)}
    \cup {ZInt(-(j * 32768)) : j \in 1..(ArithSpan + 1)}

\* frac_bits / shift arguments: every legal one and the first two illegal ones
ShiftSamples == 0..(CT_MAX_SHIFT + 2)

\* shifts handed to dvm_div_q
FracSamples == {0, 1, 16, 31, 32, 33, 48, 61, 62, 63}

\* int64_t inputs for a shift k: around the ties (2m+1)*2^(k-1), around the
\* quotients that clamp, and the ends of the range
Int64Samples(k) ==
    LET half == ZPow2(IF k = 0 THEN 0 ELSE k - 1)
        ms   == {ZInt(m) : m \in (-ArithSpan - 1)..ArithSpan}
                \cup {ZAdd(INT32_MAX, ZInt(d)) : d \in -1..1}
                \cup {ZAdd(INT32_MIN, ZInt(d)) : d \in -2..0}
        ties == {ZMul(ZAdd(ZMul(ZInt(2), m), ZInt(1)), half) : m \in ms}
        near == {ZAdd(t, ZInt(d)) : t \in ties, d \in -1..1}
    IN  {x \in near \cup {INT64_MIN, INT64_MAX, ZInt(0)} : InInt64(x)}

FaultSamples == {NoFaults, NullFaults}

ArCall(op, a, b, k, fin) ==
    [pc |-> "call", op |-> op, a |-> a, b |-> b, k |-> k, fin |-> fin,
     out |-> Ret(ZInt(0), fin)]

ArIdle == ArCall("none", ZInt(0), ZInt(0), 0, NoFaults)

ArInit ==
    \/ \E op \in {"add", "sub", "mul", "div_int32"} :
         \E a \in Int32Samples, b \in Int32Samples, f \in FaultSamples :
            ar = ArCall(op, a, b, 0, f)
    \/ \E a \in Int32Samples, b \in Int32Samples, k \in FracSamples :
         \E f \in FaultSamples : ar = ArCall("div_q", a, b, k, f)
    \/ \E k \in ShiftSamples : \E x \in Int64Samples(k), f \in FaultSamples :
            ar = ArCall("round_shift_rne", x, ZInt(0), k, f)

ArDone(out) == ar' = [ar EXCEPT !.pc = "done", !.out = out]

DvmAdd ==
    /\ ar.pc = "call" /\ ar.op = "add"
    /\ ArDone(dvm_add(ar.a, ar.b, ar.fin))

DvmSub ==
    /\ ar.pc = "call" /\ ar.op = "sub"
    /\ ArDone(dvm_sub(ar.a, ar.b, ar.fin))

DvmMul ==
    /\ ar.pc = "call" /\ ar.op = "mul"
    /\ ArDone(dvm_mul(ar.a, ar.b, ar.fin))

DvmDivInt32 ==
    /\ ar.pc = "call" /\ ar.op = "div_int32"
    /\ \E o \in dvm_div_int32(ar.a, ar.b, ar.fin) : ArDone(o)

DvmDivQ ==
    /\ ar.pc = "call" /\ ar.op = "div_q"
    /\ \E o \in dvm_div_q(ar.a, ar.b, ar.k, ar.fin) : ArDone(o)

DvmRoundShiftRne ==
    /\ ar.pc = "call" /\ ar.op = "round_shift_rne"
    /\ ArDone(dvm_round_shift_rne(ar.a, ar.k, ar.fin))

(***************************************************************************)
(* Status codes (ct_types.h)                                               *)
(***************************************************************************)

CT_OK == 0

CT_ERR_NULL == -1

CT_ERR_STATE == -8

CT_ERR_HASH == -10

CT_ERR_FAULT == -11

(***************************************************************************)
(* Byte streams and SHA-256 (merkle.c).  A digest is carried as its        *)
(* bracketed preimage, -1 ... -2, so that two digests are equal exactly    *)
(* when their messages are: the hash is collision-free, and no digest is   *)
(* the all-zero hash.                                                      *)
(***************************************************************************)

CT_HASH_SIZE == 32

CT_MAX_DIMS == 4

CT_SERIALIZE_VERSION == 1

CT_DTYPE_Q16_16 == 0

CT_CHECKPOINT_VERSION == 2

\* little-endian bytes of a uint32_t (of an int32_t: of its two's complement)
write_u32_le(val) == [i \in 1..4 |-> (val \div 256^(i - 1)) % 256]

write_i32_le(val) == write_u32_le(val)

\* little-endian bytes of a uint64_t below 2^31: the high four bytes are 0
write_u64_le(val) ==
    [i \in 1..8 |-> IF i <= 4 THEN (val \div 256^(i - 1)) % 256 ELSE 0]

\* ct_sha256_init, ct_sha256_update over the message, ct_sha256_final
ct_sha256(msg) == <<-1>> \o msg \o <<-2>>

\* uint8_t h[CT_HASH_SIZE] = {0}
ZeroHash == [i \in 1..CT_HASH_SIZE |-> 0]

\* a comparison that stops after the first byte
hash_equal_first_byte(a, b) == a[1] = b[1]

ct_hash_equal(a, b) == a = b

RECURSIVE Flatten(_)
Flatten(ss) == IF ss = <<>> THEN <<>> ELSE Head(ss) \o Flatten(Tail(ss))

(***************************************************************************)
(* Tensors and their canonical hash                                        *)
(***************************************************************************)

Tensor(data, dims, strides, ndims) ==
    [null |-> FALSE, data |-> data, dims |-> dims, strides |-> strides,
     ndims |-> ndims, total_size |-> Len(data)]

\* a null ct_tensor_t pointer
NullTensor == [Tensor(<<>>, <<0, 0, 0, 0>>, <<0, 0, 0, 0>>, 0) EXCEPT !.null = TRUE]

\* ct_tensor_init_1d
Tensor1d(data) ==
    Tensor(data, <<Len(data), 1, 1, 1>>, <<1, Len(data), Len(data), Len(data)>>, 1)

RECURSIVE StridesMatch(_, _, _)
StridesMatch(t, i, expected_stride) ==
    IF i < 1 THEN TRUE
    ELSE IF t.strides[i] # expected_stride THEN FALSE
    ELSE StridesMatch(t, i - 1, expected_stride * t.dims[i])

ct_tensor_is_contiguous(t) ==
    IF t.null \/ t.ndims = 0 THEN TRUE ELSE StridesMatch(t, t.ndims, 1)

ct_tensor_hash(t) ==
    IF t.null THEN [err |-> CT_ERR_NULL, hash |-> ZeroHash]
    ELSE IF ~ct_tensor_is_contiguous(t) THEN [err |-> CT_ERR_STATE, hash |-> ZeroHash]
    ELSE LET header == write_u32_le(CT_SERIALIZE_VERSION)
                       \o write_u32_le(CT_DTYPE_Q16_16)
                       \o write_u32_le(t.ndims)
                       \o Flatten([i \in 1..CT_MAX_DIMS |-> write_u32_le(t.dims[i])])
                       \o write_u64_le(t.total_size)
             elems  == Flatten([i \in 1..t.total_size |-> write_i32_le(t.data[i])])
         IN  [err |-> CT_OK, hash |-> ct_sha256(header \o elems)]

\* H(B_t): the indices as little-endian uint32_t, in the given order
compute_batch_hash(indices) ==
    ct_sha256(Flatten([i \in 1..Len(indices) |-> write_u32_le(indices[i])]))

(***************************************************************************)
(* The Merkle chain (merkle.c).  Every operation is an operator from its   *)
(* arguments and the objects it is handed to its status and the objects as *)
(* it leaves them; cnull says that the context pointer is null.            *)
(***************************************************************************)

MerkleCtx(h, h0, step, epoch, initialized, faulted) ==
    [current_hash |-> h, initial_hash |-> h0, step |-> step, epoch |-> epoch,
     initialized |-> initialized, faulted |-> faulted]

\* ct_merkle_ctx_t ctx = {0}
ZeroCtx == MerkleCtx(ZeroHash, ZeroHash, 0, 0, FALSE, FALSE)

StepRecord(prev, wh, bh, step, sh) ==
    [null |-> FALSE, prev_hash |-> prev, weights_hash |-> wh, batch_hash |-> bh,
     step |-> step, step_hash |-> sh]

ZeroRecord == StepRecord(ZeroHash, ZeroHash, ZeroHash, 0, ZeroHash)

\* a null ct_training_step_t pointer
NullRecord == [ZeroRecord EXCEPT !.null = TRUE]

Prng(seed, op_id, step) == [null |-> FALSE, seed |-> seed, op_id |-> op_id, step |-> step]

NullPrng == [Prng(0, 0, 0) EXCEPT !.null = TRUE]

Checkpoint(step, epoch, mh, wh, ch, prng, ts, version, flags) ==
    [null |-> FALSE, step |-> step, epoch |-> epoch, merkle_hash |-> mh,
     weights_hash |-> wh, config_hash |-> ch, prng_state |-> prng,
     timestamp |-> ts, version |-> version, fault_flags |-> flags]

ZeroCheckpoint ==
    Checkpoint(0, 0, ZeroHash, ZeroHash, ZeroHash, Prng(0, 0, 0), 0, <<>>, NoFaults)

NullCheckpoint == [ZeroCheckpoint EXCEPT !.null = TRUE]

\* a pointer to 32 bytes, or null
HashPtr(h) == [null |-> FALSE, hash |-> h]

NullHash == [null |-> TRUE, hash |-> ZeroHash]

\* config_data and config_size
Config(bytes) == [null |-> FALSE, data |-> bytes]

NullConfig == [null |-> TRUE, data |-> <<>>]

Batch(indices) == [null |-> FALSE, indices |-> indices]

NullBatch == [null |-> TRUE, indices |-> <<>>]

GenesisHash(wh, config, seed) ==
    ct_sha256(wh
              \o (IF ~config.null /\ Len(config.data) > 0
                  THEN ct_sha256(config.data) ELSE ZeroHash)
              \o write_u64_le(seed))

\* an init that leaves the hashes of an initialised context as they are
init_once(cnull, c, initial_weights, config, seed) ==
    IF cnull \/ initial_weights.null THEN [ret |-> CT_ERR_NULL, ctx |-> c]
    ELSE LET wh == ct_tensor_hash(initial_weights)
             h0 == IF c.initialized THEN c.initial_hash
                   ELSE GenesisHash(wh.hash, config, seed)
         IN  IF wh.err # CT_OK THEN [ret |-> wh.err, ctx |-> c]
             ELSE [ret |-> CT_OK, ctx |-> MerkleCtx(h0, h0, 0, 0, TRUE, FALSE)]

ct_merkle_init(cnull, c, initial_weights, config, seed) ==
    IF cnull \/ initial_weights.null THEN [ret |-> CT_ERR_NULL, ctx |-> c]
    ELSE LET wh == ct_tensor_hash(initial_weights)
             h0 == GenesisHash(wh.hash, config, seed)
         IN  IF wh.err # CT_OK THEN [ret |-> wh.err, ctx |-> c]
             ELSE [ret |-> CT_OK, ctx |-> MerkleCtx(h0, h0, 0, 0, TRUE, FALSE)]

StepHash(prev, wh, bh, step) == ct_sha256(prev \o wh \o bh \o write_u64_le(step))

\* a step that advances the counter before the weights are hashed, so that a
\* failed hash leaves it advanced
step_counts_before_hashing(cnull, c, weights, batch, step_out, faults) ==
    IF cnull \/ weights.null \/ batch.null
    THEN [ret |-> CT_ERR_NULL, ctx |-> c, out |-> step_out]
    ELSE IF ~c.initialized
    THEN [ret |-> CT_ERR_STATE, ctx |-> c, out |-> step_out]
    ELSE IF ~faults.null /\ ct_has_fault(faults)
    THEN [ret |-> CT_ERR_FAULT, ctx |-> [c EXCEPT !.faulted = TRUE], out |-> step_out]
    ELSE IF c.faulted
    THEN [ret |-> CT_ERR_FAULT, ctx |-> c, out |-> step_out]
    ELSE LET wh       == ct_tensor_hash(weights)
             bh       == compute_batch_hash(batch.indices)
             new_hash == StepHash(c.current_hash, wh.hash, bh, c.step)
         IN  IF wh.err # CT_OK
             THEN [ret |-> wh.err, ctx |-> [c EXCEPT !.step = c.step + 1],
                   out |-> step_out]
             ELSE [ret |-> CT_OK,
                   ctx |-> [c EXCEPT !.current_hash = new_hash, !.step = c.step + 1],
                   out |-> IF step_out.null THEN step_out
                           ELSE StepRecord(c.current_hash, wh.hash, bh, c.step, new_hash)]

\* a step that never looks at the faulted latch
step_without_latch(cnull, c, weights, batch, step_out, faults) ==
    IF cnull \/ weights.null \/ batch.null
    THEN [ret |-> CT_ERR_NULL, ctx |-> c, out |-> step_out]
    ELSE IF ~c.initialized
    THEN [ret |-> CT_ERR_STATE, ctx |-> c, out |-> step_out]
    ELSE IF ~faults.null /\ ct_has_fault(faults)
    THEN [ret |-> CT_ERR_FAULT, ctx |-> [c EXCEPT !.faulted = TRUE], out |-> step_out]
    ELSE LET wh       == ct_tensor_hash(weights)
             bh       == compute_batch_hash(batch.indices)
             new_hash == StepHash(c.current_hash, wh.hash, bh, c.step)
         IN  IF wh.err # CT_OK
             THEN [ret |-> wh.err, ctx |-> c, out |-> step_out]
             ELSE [ret |-> CT_OK,
                   ctx |-> [c EXCEPT !.current_hash = new_hash, !.step = c.step + 1],
                   out |-> IF step_out.null THEN step_out
                           ELSE StepRecord(c.current_hash, wh.hash, bh, c.step, new_hash)]

\* a step that looks at the faulted latch only when it is handed a fault record
step_latch_needs_record(cnull, c, weights, batch, step_out, faults) ==
    IF cnull \/ weights.null \/ batch.null
    THEN [ret |-> CT_ERR_NULL, ctx |-> c, out |-> step_out]
    ELSE IF ~c.initialized
    THEN [ret |-> CT_ERR_STATE, ctx |-> c, out |-> step_out]
    ELSE IF ~faults.null /\ (ct_has_fault(faults) \/ c.faulted)
    THEN [ret |-> CT_ERR_FAULT, ctx |-> [c EXCEPT !.faulted = TRUE], out |-> step_out]
    ELSE LET wh       == ct_tensor_hash(weights)
             bh       == compute_batch_hash(batch.indices)
             new_hash == StepHash(c.current_hash, wh.hash, bh, c.step)
         IN  IF wh.err # CT_OK
             THEN [ret |-> wh.err, ctx |-> c, out |-> step_out]
             ELSE [ret |-> CT_OK,
                   ctx |-> [c EXCEPT !.current_hash = new_hash, !.step = c.step + 1],
                   out |-> IF step_out.null THEN step_out
                           ELSE StepRecord(c.current_hash, wh.hash, bh, c.step, new_hash)]

\* a step that fills the record after it has updated the context
step_records_after_update(cnull, c, weights, batch, step_out, faults) ==
    IF cnull \/ weights.null \/ batch.null
    THEN [ret |-> CT_ERR_NULL, ctx |-> c, out |-> step_out]
    ELSE IF ~c.initialized
    THEN [ret |-> CT_ERR_STATE, ctx |-> c, out |-> step_out]
    ELSE IF ~faults.null /\ ct_has_fault(faults)
    THEN [ret |-> CT_ERR_FAULT, ctx |-> [c EXCEPT !.faulted = TRUE], out |-> step_out]
    ELSE IF c.faulted
    THEN [ret |-> CT_ERR_FAULT, ctx |-> c, out |-> step_out]
    ELSE LET wh       == ct_tensor_hash(weights)
             bh       == compute_batch_hash(batch.indices)
             new_hash == StepHash(c.current_hash, wh.hash, bh, c.step)
         IN  IF wh.err # CT_OK
             THEN [ret |-> wh.err, ctx |-> c, out |-> step_out]
             ELSE [ret |-> CT_OK,
                   ctx |-> [c EXCEPT !.current_hash = new_hash, !.step = c.step + 1],
                   out |-> IF step_out.null THEN step_out
                           ELSE StepRecord(new_hash, wh.hash, bh, c.step + 1, new_hash)]

ct_merkle_step(cnull, c, weights, batch, step_out, faults) ==
    IF cnull \/ weights.null \/ batch.null
    THEN [ret |-> CT_ERR_NULL, ctx |-> c, out |-> step_out]
    ELSE IF ~c.initialized
    THEN [ret |-> CT_ERR_STATE, ctx |-> c, out |-> step_out]
    ELSE IF ~faults.null /\ ct_has_fault(faults)
    THEN [ret |-> CT_ERR_FAULT, ctx |-> [c EXCEPT !.faulted = TRUE], out |-> step_out]
    ELSE IF c.faulted
    THEN [ret |-> CT_ERR_FAULT, ctx |-> c, out |-> step_out]
    ELSE LET wh       == ct_tensor_hash(weights)
             bh       == compute_batch_hash(batch.indices)
             new_hash == StepHash(c.current_hash, wh.hash, bh, c.step)
         IN  IF wh.err # CT_OK
             THEN [ret |-> wh.err, ctx |-> c, out |-> step_out]
             ELSE [ret |-> CT_OK,
                   ctx |-> [c EXCEPT !.current_hash = new_hash, !.step = c.step + 1],
                   out |-> IF step_out.null THEN step_out
                           ELSE StepRecord(c.current_hash, wh.hash, bh, c.step, new_hash)]

ct_merkle_is_valid(cnull, c) == ~cnull /\ c.initialized /\ ~c.faulted

ct_merkle_invalidate(cnull, c) == IF cnull THEN c ELSE [c EXCEPT !.faulted = TRUE]

\* on a non-contiguous tensor the call fails with step, epoch and merkle_hash
\* of the checkpoint already written
ct_checkpoint_create(cnull, c, prng, epoch, weights, config_hash, cp, now) ==
    IF cnull \/ prng.null \/ weights.null \/ config_hash.null \/ cp.null
    THEN [ret |-> CT_ERR_NULL, ckpt |-> cp]
    ELSE LET wh == ct_tensor_hash(weights)
             c1 == [cp EXCEPT !.step = c.step, !.epoch = epoch,
                              !.merkle_hash = c.current_hash]
             c2 == [c1 EXCEPT !.weights_hash = wh.hash,
                              !.config_hash = config_hash.hash,
                              !.prng_state = prng,
                              !.timestamp = now,
                              !.version = MagOfNat(CT_CHECKPOINT_VERSION),
                              !.fault_flags = ct_clear_faults(cp.fault_flags)]
         IN  IF wh.err # CT_OK THEN [ret |-> wh.err, ckpt |-> c1]
             ELSE [ret |-> CT_OK,
                   ckpt |-> IF c.faulted
                            THEN [c2 EXCEPT !.fault_flags.overflow = 1]
                            ELSE c2]

ct_checkpoint_verify(cp, weights) ==
    IF cp.null \/ weights.null THEN CT_ERR_NULL
    ELSE LET computed == ct_tensor_hash(weights)
         IN  IF computed.err # CT_OK THEN computed.err
             ELSE IF ~ct_hash_equal(computed.hash, cp.weights_hash) THEN CT_ERR_HASH
             ELSE CT_OK

\* a restore that takes the hash and the flags of the checkpoint and leaves
\* the counters of the context as they are
restore_hash_only(cnull, c, cp) ==
    IF cnull \/ cp.null THEN [ret |-> CT_ERR_NULL, ctx |-> c]
    ELSE [ret |-> CT_OK,
          ctx |-> [c EXCEPT !.current_hash = cp.merkle_hash,
                            !.initialized = TRUE,
                            !.faulted = ct_has_fault(cp.fault_flags)]]

\* a restore that leaves a faulted context faulted
restore_keeps_fault(cnull, c, cp) ==
    IF cnull \/ cp.null THEN [ret |-> CT_ERR_NULL, ctx |-> c]
    ELSE [ret |-> CT_OK,
          ctx |-> [c EXCEPT !.current_hash = cp.merkle_hash,
                            !.step = cp.step,
                            !.epoch = cp.epoch,
                            !.initialized = TRUE,
                            !.faulted = c.faulted \/ ct_has_fault(cp.fault_flags)]]

ct_merkle_restore(cnull, c, cp) ==
    IF cnull \/ cp.null THEN [ret |-> CT_ERR_NULL, ctx |-> c]
    ELSE [ret |-> CT_OK,
          ctx |-> [c EXCEPT !.current_hash = cp.merkle_hash,
                            !.step = cp.step,
                            !.epoch = cp.epoch,
                            !.initialized = TRUE,
                            !.faulted = ct_has_fault(cp.fault_flags)]]

\* a verifier that recomputes the step hash over the step number plus one
verify_step_counts_from_one(step, prev_hash, weights, batch) ==
    IF step.null \/ prev_hash.null \/ weights.null \/ batch.null THEN CT_ERR_NULL
    ELSE IF ~ct_hash_equal(step.prev_hash, prev_hash.hash) THEN CT_ERR_HASH
    ELSE LET computed_weights == ct_tensor_hash(weights)
             computed_batch   == compute_batch_hash(batch.indices)
             computed_step    == StepHash(step.prev_hash, step.weights_hash,
                                          step.batch_hash, step.step + 1)
         IN  IF computed_weights.err # CT_OK THEN computed_weights.err
             ELSE IF ~ct_hash_equal(step.weights_hash, computed_weights.hash)
             THEN CT_ERR_HASH
             ELSE IF ~ct_hash_equal(step.batch_hash, computed_batch) THEN CT_ERR_HASH
             ELSE IF ~ct_hash_equal(step.step_hash, computed_step) THEN CT_ERR_HASH
             ELSE CT_OK

ct_merkle_verify_step(step, prev_hash, weights, batch) ==
    IF step.null \/ prev_hash.null \/ weights.null \/ batch.null THEN CT_ERR_NULL
    ELSE IF ~ct_hash_equal(step.prev_hash, prev_hash.hash) THEN CT_ERR_HASH
    ELSE LET computed_weights == ct_tensor_hash(weights)
             computed_batch   == compute_batch_hash(batch.indices)
             computed_step    == StepHash(step.prev_hash, step.weights_hash,
                                          step.batch_hash, step.step)
         IN  IF computed_weights.err # CT_OK THEN computed_weights.err
             ELSE IF ~ct_hash_equal(step.weights_hash, computed_weights.hash)
             THEN CT_ERR_HASH
             ELSE IF ~ct_hash_equal(step.batch_hash, computed_batch) THEN CT_ERR_HASH
             ELSE IF ~ct_hash_equal(step.step_hash, computed_step) THEN CT_ERR_HASH
             ELSE CT_OK

(***************************************************************************)
(* Calls on one chain context, one checkpoint and one step-record buffer.  *)
(* call holds the operation, its status, the state the chain was in, and   *)
(* what the formulas below need of the arguments.                          *)
(***************************************************************************)

\* the chain is stepped at most this many times past genesis
MaxStep == 2

W1 == Tensor1d(<<65536, -65536>>)

\* W1 with one weight changed by one LSB
W2 == Tensor1d(<<65537, -65536>>)

\* a strided view: not contiguous
WStrided == [W1 EXCEPT !.strides[1] = 2]

TensorSamples == {W1, WStrided, NullTensor}

\* weights handed to the verifiers
VerifyTensorSamples == TensorSamples \cup {W2}

B1 == Batch(<<42, 17>>)

\* B1 with one index changed by 1
B2 == Batch(<<43, 17>>)

BatchSamples == {B1, NullBatch}

VerifyBatchSamples == BatchSamples \cup {B2}

SeedSamples == {1, 2}

Cfg == Config(<<99, 102, 103>>)

EpochSamples == {0, 1}

TimeSamples == {1000}

StepFaultSamples ==
    {NullFaults, NoFaults,
     FaultFlags(1, 0, 0, 0, 0), FaultFlags(0, 1, 0, 0, 0), FaultFlags(0, 0, 1, 0, 0),
     FaultFlags(0, 0, 0, 1, 0), FaultFlags(0, 0, 0, 0, 1)}

\* arguments of ct_merkle_init: two good calls, and one argument off at a time
InitArgs ==
    {[cnull |-> FALSE, w |-> W1, cfg |-> NullConfig, seed |-> 1],
     [cnull |-> FALSE, w |-> W1, cfg |-> Cfg, seed |-> 2],
     [cnull |-> TRUE, w |-> W1, cfg |-> NullConfig, seed |-> 1],
     [cnull |-> FALSE, w |-> WStrided, cfg |-> NullConfig, seed |-> 1],
     [cnull |-> FALSE, w |-> NullTensor, cfg |-> NullConfig, seed |-> 1]}

\* arguments of ct_merkle_step: good pointers with every fault record, and
\* one pointer off at a time with a clean and with a faulty record
StepArgs ==
    {[cnull |-> FALSE, w |-> W1, b |-> B1, f |-> f] : f \in StepFaultSamples}
    \cup {[cnull |-> TRUE, w |-> W1, b |-> B1, f |-> f] :
             f \in {NoFaults, FaultFlags(1, 0, 0, 0, 0)}}
    \cup {[cnull |-> FALSE, w |-> w, b |-> B1, f |-> f] :
             w \in TensorSamples \ {W1}, f \in {NoFaults, FaultFlags(1, 0, 0, 0, 0)}}
    \cup {[cnull |-> FALSE, w |-> W1, b |-> NullBatch, f |-> f] :
             f \in {NoFaults, FaultFlags(1, 0, 0, 0, 0)}}

\* arguments of ct_checkpoint_create: good calls at each epoch, and one
\* argument off at a time
CreateArgs ==
    {[cnull |-> FALSE, prng |-> Prng(42, 0, 0), epoch |-> e, w |-> W1,
      ch |-> HashPtr(ZeroHash), cpnull |-> FALSE] : e \in EpochSamples}
    \cup {[cnull |-> TRUE, prng |-> Prng(42, 0, 0), epoch |-> 0, w |-> W1,
           ch |-> HashPtr(ZeroHash), cpnull |-> FALSE],
          [cnull |-> FALSE, prng |-> NullPrng, epoch |-> 0, w |-> W1,
           ch |-> HashPtr(ZeroHash), cpnull |-> FALSE],
          [cnull |-> FALSE, prng |-> Prng(42, 0, 0), epoch |-> 0, w |-> WStrided,
           ch |-> HashPtr(ZeroHash), cpnull |-> FALSE],
          [cnull |-> FALSE, prng |-> Prng(42, 0, 0), epoch |-> 0, w |-> NullTensor,
           ch |-> HashPtr(ZeroHash), cpnull |-> FALSE],
          [cnull |-> FALSE, prng |-> Prng(42, 0, 0), epoch |-> 0, w |-> W1,
           ch |-> NullHash, cpnull |-> FALSE],
          [cnull |-> FALSE, prng |-> Prng(42, 0, 0), epoch |-> 0, w |-> W1,
           ch |-> HashPtr(ZeroHash), cpnull |-> TRUE]}

\* no init has succeeded, or the chain was restored since the last one
NoScript == [known |-> FALSE, w |-> NullTensor, cfg |-> NullConfig, seed |-> 0,
             steps |-> <<>>]

\* uninit, running or faulted (spec 4.8)
ChainState(c) ==
    IF ~c.initialized THEN "uninit" ELSE IF c.faulted THEN "faulted" ELSE "running"

\* the last two entries of a history
LastTwo(h) == IF Len(h) <= 2 THEN h ELSE SubSeq(h, Len(h) - 1, Len(h))

\* the chain entered the faulted state ("faulted"); it was initialized again
\* after that ("reinit"); "none" after a restore and before any fault
EraAfter(op, ret, c) ==
    IF c.initialized /\ c.faulted THEN "faulted"
    ELSE IF op = "restore" /\ ret = CT_OK THEN "none"
    ELSE IF op = "init" /\ ret = CT_OK /\ era # "none" THEN "reinit"
    ELSE era

MerkleInit ==
    \E a \in InitArgs :
        LET r == ct_merkle_init(a.cnull, ctx, a.w, a.cfg, a.seed)
        IN  /\ ctx' = r.ctx
            /\ call' = [op |-> "init", ret |-> r.ret]
            /\ trail' = IF r.ret = CT_OK THEN <<>> ELSE trail
            /\ era' = EraAfter("init", r.ret, r.ctx)
            /\ script' = IF r.ret = CT_OK
                         THEN [known |-> TRUE, w |-> a.w, cfg |-> a.cfg,
                               seed |-> a.seed, steps |-> <<>>]
                         ELSE script
            /\ UNCHANGED <<ckpt, rec, besideMerkle>>

\* a step; a caller that keeps step records (keep) hands rec as step_out or
\* no record, one that does not hands none
StepCall(keep) ==
    /\ ctx.step < MaxStep
    /\ \E a \in StepArgs, step_out \in (IF keep THEN {rec, NullRecord} ELSE {NullRecord}) :
        LET r == ct_merkle_step(a.cnull, ctx, a.w, a.b, step_out, a.f)
        IN  /\ ctx' = r.ctx
            /\ rec' = IF step_out.null THEN rec ELSE r.out
            /\ call' = [op |-> "step", ret |-> r.ret, pre |-> ChainState(ctx),
                        nullarg |-> a.cnull \/ a.w.null \/ a.b.null,
                        faulty |-> ~a.f.null /\ (a.f.overflow = 1 \/ a.f.underflow = 1
                                                 \/ a.f.div_zero = 1 \/ a.f.domain = 1),
                        out |-> ~step_out.null,
                        w |-> IF r.ret = CT_OK THEN a.w ELSE NullTensor,
                        b |-> IF r.ret = CT_OK THEN a.b ELSE NullBatch]
            /\ trail' = IF r.ret # CT_OK THEN trail
                        ELSE IF step_out.null THEN <<>>
                        ELSE LastTwo(Append(trail, [rec |-> r.out, w |-> a.w, b |-> a.b]))
            /\ era' = EraAfter("step", r.ret, r.ctx)
            /\ script' = IF r.ret = CT_OK /\ script.known
                         THEN [script EXCEPT !.steps = Append(@, [w |-> a.w, b |-> a.b])]
                         ELSE script
            /\ UNCHANGED <<ckpt, besideMerkle>>

MerkleStep == StepCall(FALSE)

MerkleStepRecorded == StepCall(TRUE)

MerkleInvalidate ==
    \E cnull \in BOOLEAN :
        /\ ctx' = ct_merkle_invalidate(cnull, ctx)
        /\ call' = [op |-> "invalidate", ret |-> CT_OK]
        /\ era' = EraAfter("invalidate", CT_OK, ctx')
        /\ UNCHANGED <<ckpt, rec, trail, script, besideMerkle>>

CheckpointCreate ==
    \E a \in CreateArgs, now \in TimeSamples :
        LET cp == IF a.cpnull THEN NullCheckpoint ELSE ckpt
            r == ct_checkpoint_create(a.cnull, ctx, a.prng, a.epoch, a.w, a.ch, cp, now)
        IN  /\ ckpt' = IF cp.null THEN ckpt ELSE r.ckpt
            /\ call' = [op |-> "create", ret |-> r.ret]
            /\ UNCHANGED <<ctx, rec, trail, era, script, besideMerkle>>

CheckpointVerify ==
    \E cp \in {ckpt, NullCheckpoint}, w \in VerifyTensorSamples :
        /\ call' = [op |-> "checkpoint_verify", ret |-> ct_checkpoint_verify(cp, w)]
        /\ UNCHANGED <<ctx, ckpt, rec, trail, era, script, besideMerkle>>

MerkleRestore ==
    \E cnull \in BOOLEAN, cp \in {ckpt, NullCheckpoint} :
        LET r == ct_merkle_restore(cnull, ctx, cp)
        IN  /\ ctx' = r.ctx
            /\ call' = [op |-> "restore", ret |-> r.ret, pre |-> ChainState(ctx)]
            /\ trail' = IF r.ret = CT_OK THEN <<>> ELSE trail
            /\ era' = EraAfter("restore", r.ret, r.ctx)
            /\ script' = IF r.ret = CT_OK THEN NoScript ELSE script
            /\ UNCHANGED <<ckpt, rec, besideMerkle>>

\* hashes a verifier may hold as the prior hash: the record's own, the zero
\* hash, the chain's genesis, and the genesis of the same weights under each seed
PrevSamples ==
    {HashPtr(rec.prev_hash), HashPtr(ZeroHash), HashPtr(ctx.initial_hash), NullHash}
    \cup {HashPtr(GenesisHash(ct_tensor_hash(W1).hash, NullConfig, s)) : s \in SeedSamples}

\* the record as emitted, with its step number changed, or no record
RecordSamples == {rec, [rec EXCEPT !.step = rec.step + 1], NullRecord}

\* which of the verifier's inputs differ from those of the step that emitted e
Tampered(e, step, prev, w, b) ==
    {n \in {"weights", "batch", "step", "prev"} :
        \/ n = "weights" /\ w # e.w
        \/ n = "batch" /\ b # e.b
        \/ n = "step" /\ step.step # e.rec.step
        \/ n = "prev" /\ prev.hash # e.rec.prev_hash}

\* arguments of ct_merkle_verify_step: the record with its own prior hash,
\* W1 and B1, and one argument changed at a time
VerifyArgs ==
    {[step |-> st, prev |-> HashPtr(rec.prev_hash), w |-> W1, b |-> B1] :
        st \in RecordSamples}
    \cup {[step |-> rec, prev |-> pv, w |-> W1, b |-> B1] : pv \in PrevSamples}
    \cup {[step |-> rec, prev |-> HashPtr(rec.prev_hash), w |-> w, b |-> B1] :
             w \in VerifyTensorSamples}
    \cup {[step |-> rec, prev |-> HashPtr(rec.prev_hash), w |-> W1, b |-> b] :
             b \in VerifyBatchSamples}

VerifyStep ==
    \E a \in VerifyArgs :
        /\ call' = [op |-> "verify_step",
                    ret |-> ct_merkle_verify_step(a.step, a.prev, a.w, a.b),
                    tampered |-> IF trail # <<>> /\ ~a.step.null /\ ~a.prev.null
                                    /\ ~a.w.null /\ ~a.b.null
                                 THEN Tampered(trail[Len(trail)], a.step, a.prev, a.w, a.b)
                                 ELSE {}]
        /\ UNCHANGED <<ctx, ckpt, rec, trail, era, script, besideMerkle>>

(***************************************************************************)
(* Counter-based PRNG (src/src/dvm/prng.c).  A uint64_t or uint32_t value  *)
(* is a natural, kept as a limb sequence.                                  *)
(***************************************************************************)

\* the uint64_t made of four 16-bit words, the most significant first
Words64(w3, w2, w1, w0) ==
    MagAdd(MagAdd(MagShl(MagOfNat(w3), 48), MagShl(MagOfNat(w2), 32)),
           MagAdd(MagShl(MagOfNat(w1), 16), MagOfNat(w0)))

RECURSIVE LimbXor(_, _)
LimbXor(x, y) ==
    IF x = 0 THEN y
    ELSE IF y = 0 THEN x
    ELSE ((x + y) % 2) + 2 * LimbXor(x \div 2, y \div 2)

\* a ^ b
MagXor(a, b) ==
    LET n == IF Len(a) < Len(b) THEN Len(b) ELSE Len(a)
    IN  Norm([i \in 1..n |-> LimbXor(Limb(a, i), Limb(b, i))])

\* a | b
MagOr(a, b) == MagAdd(MagXor(a, b), MagAnd(a, b))

\* uint64_t arithmetic: the result modulo 2^64
UMul64(a, b) == MagLow(MagMul(a, b), 64)

UAdd64(a, b) == MagLow(MagAdd(a, b), 64)

UShl64(a, k) == MagLow(MagShl(a, k), 64)

PRNG_MUL_CTR == Words64(0, 0, 53841, 8019)

PRNG_MUL_KEY == Words64(0, 0, 52638, 36183)

PRNG_ADD_KEY == Words64(0, 0, 40503, 31161)

PRNG_ROUNDS == 10

\* 0x9E3779B97F4A7C15, the multiplier of op_id in the key and of layer_id
GoldenRatio64 == Words64(40503, 31161, 32586, 31765)

\* one round of the mixing loop of prng_core
prng_round(s) ==
    [ctr |-> MagXor(UMul64(s.ctr, PRNG_MUL_CTR), s.key),
     key |-> UAdd64(UMul64(s.key, PRNG_MUL_KEY), PRNG_ADD_KEY)]

RECURSIVE prng_rounds(_)
\* the states of the mixing loop: before round 0, after round 0, ...
prng_rounds(done) ==
    IF Len(done) > PRNG_ROUNDS THEN done
    ELSE prng_rounds(Append(done, prng_round(done[Len(done)])))

prng_mix(seed, op_id, step) ==
    LET ctr == MagOr(UShl64(op_id, 32), MagLow(step, 32))
        key == MagXor(seed, UMul64(op_id, GoldenRatio64))
    IN  MagLow(prng_rounds(<<[ctr |-> ctr, key |-> key]>>)[PRNG_ROUNDS + 1].ctr, 32)

\* no object draws more than this many values
MaxDraws == 2

\* (seed, op_id) pairs: the reference vector's, and two streams of one seed
PrngKeySamples ==
    {[seed |-> <<>>, op_id |-> <<>>],
     [seed |-> <<42>>, op_id |-> <<>>],
     [seed |-> <<42>>, op_id |-> <<1>>]}

\* prng_mix on the inputs the callers below can reach, computed once: @@
\* makes a table of the function
CoreOnSamples ==
    [a \in {<<k.seed, k.op_id, MagOfNat(s)>> :
                k \in PrngKeySamples, s \in 0..(MaxDraws + 1)}
        |-> prng_mix(a[1], a[2], a[3])] @@ <<>>

prng_core(seed, op_id, step) ==
    IF <<seed, op_id, step>> \in DOMAIN CoreOnSamples
    THEN CoreOnSamples[<<seed, op_id, step>>]
    ELSE prng_mix(seed, op_id, step)

ct_prng_init(prng, seed, op_id) ==
    IF prng.null THEN prng ELSE Prng(seed, op_id, <<>>)

\* a next that moves the cursor before it reads it
next_advances_first(prng) ==
    IF prng.null THEN [val |-> <<>>, prng |-> prng]
    ELSE [val  |-> prng_core(prng.seed, prng.op_id, UAdd64(prng.step, <<1>>)),
          prng |-> [prng EXCEPT !.step = UAdd64(prng.step, <<1>>)]]

\* the value returned and the state left behind
ct_prng_next(prng) ==
    IF prng.null THEN [val |-> <<>>, prng |-> prng]
    ELSE [val  |-> prng_core(prng.seed, prng.op_id, prng.step),
          prng |-> [prng EXCEPT !.step = UAdd64(prng.step, <<1>>)]]

ct_prng_peek(prng, step) ==
    IF prng.null THEN <<>> ELSE prng_core(prng.seed, prng.op_id, step)

ct_prng_make_op_id(layer_id, tensor_id, element_idx) ==
    LET id1 == UAdd64(UMul64(layer_id, GoldenRatio64), tensor_id)
        id2 == UAdd64(UMul64(id1, Words64(48984, 18285, 7396, 58809)), element_idx)
        id3 == MagXor(id2, MagShr(id2, 30))
        id4 == UMul64(id3, Words64(38096, 18875, 4913, 4587))
    IN  MagXor(id4, MagShr(id4, 31))

\* one outcome of ct_stochastic_round: the value returned, the fault record
\* and the PRNG state as it leaves them, the values it drew from the PRNG and
\* the threshold it compared with
SRound(out, prng, drawn, threshold) ==
    [val |-> out.val, faults |-> out.faults, prng |-> prng, drawn |-> drawn,
     threshold |-> threshold]

\* rand >> (32 - shift) on uint32_t.  Above shift 32 the count 32 - shift
\* wraps to 2^32 + 32 - shift, which is no less than the width of rand:
\* undefined in C.  A build yields the shift by the low five bits of the
\* count (x86) or zero (ARM).
ThresholdOf(rand, shift) ==
    IF shift <= 32 THEN {MagShr(rand, 32 - shift)}
    ELSE {MagShr(rand, (32 - shift) % 32), <<>>}

\* a stochastic_round that also rounds up when the fraction equals the threshold
stochastic_round_on_equal(x, shift, prng, faults) ==
    IF shift > CT_MAX_SHIFT
    THEN {SRound(Ret(ZInt(0), SetFault(faults, "domain")), prng, <<>>, <<>>)}
    ELSE IF shift = 0 THEN {SRound(dvm_clamp32(x, faults), prng, <<>>, <<>>)}
    ELSE IF prng.null
    THEN {SRound(dvm_clamp32(Shr64(x, shift), faults), prng, <<>>, <<>>)}
    ELSE LET drawn    == ct_prng_next(prng)
             mask     == ZSub(Shl64(ZInt(1), shift), ZInt(1))
             fraction == And64(x, mask)
             quotient == Shr64(x, shift)
         IN  {SRound(dvm_clamp32(IF MagCmp(ToU64(fraction), t) >= 0
                                 THEN ZAdd(quotient, ZInt(1))
                                 ELSE quotient, faults),
                     drawn.prng, <<drawn.val>>, t) : t \in ThresholdOf(drawn.val, shift)}

\* the set of outcomes of ct_stochastic_round
ct_stochastic_round(x, shift, prng, faults) ==
    IF shift > CT_MAX_SHIFT
    THEN {SRound(Ret(ZInt(0), SetFault(faults, "domain")), prng, <<>>, <<>>)}
    ELSE IF shift = 0 THEN {SRound(dvm_clamp32(x, faults), prng, <<>>, <<>>)}
    ELSE IF prng.null
    THEN {SRound(dvm_clamp32(Shr64(x, shift), faults), prng, <<>>, <<>>)}
    ELSE LET drawn    == ct_prng_next(prng)
             mask     == ZSub(Shl64(ZInt(1), shift), ZInt(1))
             fraction == And64(x, mask)
             quotient == Shr64(x, shift)
         IN  {SRound(dvm_clamp32(IF MagCmp(ToU64(fraction), t) > 0
                                 THEN ZAdd(quotient, ZInt(1))
                                 ELSE quotient, faults),
                     drawn.prng, <<drawn.val>>, t) : t \in ThresholdOf(drawn.val, shift)}

(***************************************************************************)
(* Calls on the PRNG interface.  The caller owns two ct_prng_t objects;    *)
(* who = 0 is a call with a NULL pointer.                                  *)
(***************************************************************************)

\* the steps peek is asked for
PeekSamples == {MagOfNat(s) : s \in 0..MaxDraws}

\* (layer_id, tensor_id, element_idx) triples
OpIdSamples == {<<<<>>, <<>>, <<>>>>, <<<<1>>, <<2>>, <<3>>>>}

ZeroPrng == Prng(<<>>, <<>>, <<>>)

\* the prng argument that is NULL
NoPrng == [ZeroPrng EXCEPT !.null = TRUE]

PrngAt(who) == IF who = 0 THEN NoPrng ELSE rng[who]

\* the object behind pointer who has drawn fewer than MaxDraws values
MayDraw(who) == MagCmp(PrngAt(who).step, MagOfNat(MaxDraws)) < 0

\* the caller's objects once the call through pointer who has left p behind
PrngStored(who, p) == IF who = 0 THEN rng ELSE [rng EXCEPT ![who] = p]

Drawn(who, val) ==
    IF who = 0 THEN draws ELSE [draws EXCEPT ![who] = Append(@, val)]

PrngInit ==
    \E who \in 0..2, k \in PrngKeySamples :
        /\ rng' = PrngStored(who, ct_prng_init(PrngAt(who), k.seed, k.op_id))
        /\ draws' = IF who = 0 THEN draws ELSE [draws EXCEPT ![who] = <<>>]
        /\ rcall' = [op |-> "init", pc |-> "done", who |-> who,
                     seed |-> k.seed, op_id |-> k.op_id]

PrngNext ==
    \E who \in 0..2 :
        LET r == ct_prng_next(PrngAt(who))
        IN  /\ MayDraw(who)
            /\ rng' = PrngStored(who, r.prng)
            /\ draws' = Drawn(who, r.val)
            /\ rcall' = [op |-> "next", pc |-> "done", who |-> who,
                         at |-> PrngAt(who).step, val |-> r.val]

PrngPeek ==
    \E who \in 0..2, step \in PeekSamples :
        /\ rcall' = [op |-> "peek", pc |-> "done", who |-> who, at |-> step,
                     val |-> ct_prng_peek(PrngAt(who), step)]
        /\ UNCHANGED <<rng, draws>>

PrngMakeOpId ==
    \E a \in OpIdSamples :
        /\ rcall' = [op |-> "make_op_id", pc |-> "done", who |-> 0,
                     val |-> ct_prng_make_op_id(a[1], a[2], a[3])]
        /\ UNCHANGED <<rng, draws>>

\* a call of ct_stochastic_round: its inputs, then its outcome
RoundCall(who, x, shift, fin) ==
    [op |-> "stochastic_round", pc |-> "call", who |-> who, x |-> x,
     shift |-> shift, fin |-> fin, at |-> PrngAt(who).step,
     val |-> ZInt(0), faults |-> fin, threshold |-> <<>>]

\* ct_stochastic_round(x, shift, prng, faults) with the inputs of c
RoundApply(c) ==
    /\ MayDraw(c.who)
    /\ \E o \in ct_stochastic_round(c.x, c.shift, PrngAt(c.who), c.fin) :
        /\ rng' = PrngStored(c.who, o.prng)
        /\ draws' = IF c.who = 0 THEN draws
                    ELSE [draws EXCEPT ![c.who] = @ \o o.drawn]
        /\ rcall' = [c EXCEPT !.pc = "done", !.val = o.val,
                              !.faults = o.faults, !.threshold = o.threshold]

\* the shifts a caller of the PRNG interface rounds with
RoundShiftSamples == {0, FIXED_FRAC_BITS, CT_MAX_SHIFT + 1}

\* a caller that rounds 0.5 and -0.5 in Q16.16 among its other calls
StochasticRound ==
    \E who \in 0..2, shift \in RoundShiftSamples :
        \E x \in {ZInt(32768), ZInt(-32768)} :
            RoundApply(RoundCall(who, x, shift, NoFaults))

\* a caller that rounds one value: the inputs either side of the threshold the
\* call is about to draw, with quotients inside and outside int32_t
RoundInputs(prng, shift) ==
    LET ts == IF prng.null \/ shift = 0 \/ shift > CT_MAX_SHIFT THEN {<<>>}
              ELSE ThresholdOf(ct_prng_peek(prng, prng.step), shift)
        k  == IF shift > CT_MAX_SHIFT THEN CT_MAX_SHIFT ELSE shift
        fs == {<<>>, MagSub(MagPow2(k), <<1>>)} \cup ts
              \cup {MagAdd(t, <<1>>) : t \in ts}
        qs == {ZInt(-1), ZInt(0), ZInt(1), INT32_MAX, INT32_MIN,
               ZSub(INT32_MIN, ZInt(1))}
        xs == {ZAdd(Shl64(q, k), Z(FALSE, f)) :
                  q \in qs, f \in {g \in fs : MagCmp(g, MagPow2(k)) < 0}}
    IN  {x \in xs \cup {INT64_MIN, INT64_MAX} : InInt64(x)}

\* the (who, faults) pairs of a rounding call: one argument NULL at a time
RoundPointerSamples == {<<1, NoFaults>>, <<0, NoFaults>>, <<1, NullFaults>>}

RoundInit ==
    \E k \in PrngKeySamples, s \in 0..(MaxDraws - 1), shift \in ShiftSamples :
        \E p \in RoundPointerSamples :
            LET mine == Prng(k.seed, k.op_id, MagOfNat(s))
            IN  \E x \in RoundInputs(IF p[1] = 0 THEN NoPrng ELSE mine, shift) :
                    /\ rng = [i \in 1..2 |-> IF i = 1 THEN mine ELSE ZeroPrng]
                    /\ draws = [i \in 1..2 |->
                                   IF i = 1
                                   THEN [j \in 1..s |->
                                           prng_core(k.seed, k.op_id, MagOfNat(j - 1))]
                                   ELSE <<>>]
                    /\ rcall = [RoundCall(p[1], x, shift, p[2])
                                   EXCEPT !.at = IF p[1] = 0 THEN <<>> ELSE mine.step]

StochasticRoundOnce ==
    /\ rcall.op = "stochastic_round" /\ rcall.pc = "call"
    /\ RoundApply(rcall)

NoPrngCall == [op |-> "none", pc |-> "done", who |-> 0]

PrngIdle ==
    /\ rng = [i \in 1..2 |-> ZeroPrng]
    /\ draws = [i \in 1..2 |-> <<>>]
    /\ rcall = NoPrngCall

(***************************************************************************)
(* Compensated summation (src/src/dvm/compensated.c).  ct_comp_add works   *)
(* its error term out with plain int64_t - and +: where the exact result   *)
(* leaves int64_t the C code has undefined behaviour, and the call yields  *)
(* the outcomes a build produces, the wrapped value or a trap.             *)
(***************************************************************************)

Accum(sum, err) == [null |-> FALSE, sum |-> sum, err |-> err]

NullAccum == [Accum(ZInt(0), ZInt(0)) EXCEPT !.null = TRUE]

abs64_sat(x, faults) ==
    IF x = INT64_MIN THEN Ret(INT64_MAX, SetFault(faults, "overflow"))
    ELSE Ret(IF x.neg THEN ZNeg(x) ELSE x, faults)

safe_add64(a, b, faults) ==
    IF ZLt(ZInt(0), b) /\ ZLt(ZSub(INT64_MAX, b), a)
    THEN Ret(INT64_MAX, SetFault(faults, "overflow"))
    ELSE IF ZLt(b, ZInt(0)) /\ ZLt(a, ZSub(INT64_MIN, b))
    THEN Ret(INT64_MIN, SetFault(faults, "underflow"))
    ELSE Ret(ZAdd(a, b), faults)

\* the outcomes of an int64_t operation whose exact result is v
Signed64(v) ==
    IF InInt64(v) THEN {[trap |-> FALSE, val |-> v]}
    ELSE {[trap |-> FALSE, val |-> Wrap64(v)], [trap |-> TRUE, val |-> ZInt(0)]}

\* one outcome of a call on an accumulator: the accumulator and the fault
\* record as the call leaves them, or a trap inside the call
CompOut(accum, faults) == [trap |-> FALSE, accum |-> accum, faults |-> faults]

CompTrap(accum, faults) == [trap |-> TRUE, accum |-> accum, faults |-> faults]

\* what a sequence of calls yields: the next call acts on every outcome of the
\* calls before it that did not trap
AndThen(outs, F(_)) == UNION {IF o.trap THEN {o} ELSE F(o) : o \in outs}

ct_comp_init(accum) ==
    IF accum.null THEN accum ELSE Accum(ZInt(0), ZInt(0))

ct_comp_init_value(accum, initial_value) ==
    IF accum.null THEN accum ELSE Accum(initial_value, ZInt(0))

\* the set of outcomes of ct_comp_add
ct_comp_add(accum, value, faults) ==
    IF accum.null THEN {CompOut(accum, faults)}
    ELSE LET t     == safe_add64(accum.sum, value, faults)
             asum  == abs64_sat(accum.sum, t.faults)
             aval  == abs64_sat(value, asum.faults)
             big   == IF ZLe(aval.val, asum.val) THEN accum.sum ELSE value
             small == IF ZLe(aval.val, asum.val) THEN value ELSE accum.sum
             es    == UNION {IF d.trap THEN {d} ELSE Signed64(ZAdd(d.val, small)) :
                                d \in Signed64(ZSub(big, t.val))}
         IN  {IF e.trap THEN CompTrap(accum, aval.faults)
              ELSE LET r == safe_add64(accum.err, e.val, aval.faults)
                   IN  CompOut([accum EXCEPT !.sum = t.val, !.err = r.val], r.faults) :
              e \in es}

\* the set of outcomes of ct_comp_merge on dest
ct_comp_merge(dest, src, faults) ==
    IF dest.null \/ src.null THEN {CompOut(dest, faults)}
    ELSE AndThen(ct_comp_add(dest, src.sum, faults),
                 LAMBDA o : LET r == safe_add64(o.accum.err, src.err, o.faults)
                            IN  {CompOut([o.accum EXCEPT !.err = r.val], r.faults)})

ct_comp_finalize(accum, faults) ==
    IF accum.null THEN Ret(ZInt(0), faults)
    ELSE safe_add64(accum.sum, accum.err, faults)

CT_MAX_BATCH_SIZE == 65536

RECURSIVE comp_add_rounds(_, _, _, _)
\* the rounds lo .. hi - 1 of the loop of ct_comp_sum_array, one after the
\* other (values[i] is values[i + 1] here); taken by halves, the first half
\* worked out before the second is entered, to keep the evaluation shallow
comp_add_rounds(outs, values, lo, hi) ==
    IF hi <= lo THEN outs
    ELSE IF hi = lo + 1
    THEN AndThen(outs, LAMBDA o : ct_comp_add(o.accum, values[lo + 1], o.faults))
    ELSE LET first == comp_add_rounds(outs, values, lo, (lo + hi) \div 2)
         IN  IF first = {} THEN first
             ELSE comp_add_rounds(first, values, (lo + hi) \div 2, hi)

\* the loop of ct_comp_sum_array from index i on
comp_add_from(outs, values, i) == comp_add_rounds(outs, values, i, Len(values))

\* one outcome of a call that returns an int64_t
SumOut(trap, val, faults) == [trap |-> trap, val |-> val, faults |-> faults]

Finalized(outs) ==
    {IF o.trap THEN SumOut(TRUE, ZInt(0), o.faults)
     ELSE LET r == ct_comp_finalize(o.accum, o.faults)
          IN  SumOut(FALSE, r.val, r.faults) : o \in outs}

\* the set of outcomes of ct_comp_sum_array; values is <<>> with its null field
\* set for a NULL pointer, count is Len(values.at)
ct_comp_sum_array(values, faults) ==
    IF values.null \/ Len(values.at) = 0 THEN {SumOut(FALSE, ZInt(0), faults)}
    ELSE LET f == IF Len(values.at) > CT_MAX_BATCH_SIZE
                  THEN SetFault(faults, "domain") ELSE faults
         IN  Finalized(comp_add_from({CompOut(ct_comp_init(Accum(ZInt(0), ZInt(0))), f)},
                                     values.at, 0))

(***************************************************************************)
(* A caller that adds values one by one to an accumulator                  *)
(***************************************************************************)

\* no accumulator is added to more than this many times
MaxAdds == 3

\* the values added reach this far from 0 and from the int64_t limits
SumSpan == 1

SumSamples ==
    {ZInt(i) : i \in -SumSpan..SumSpan}
    \cup {ZSub(INT64_MAX, ZInt(d)) : d \in 0..SumSpan}
    \cup {ZAdd(INT64_MIN, ZInt(d)) : d \in 0..SumSpan}

\* the accumulator, what has been added to it since ct_comp_init, the fault
\* record, and the value of the last ct_comp_finalize
CsIdle ==
    [pc |-> "idle", accum |-> Accum(ZInt(0), ZInt(0)), addends |-> <<>>,
     faults |-> NoFaults, out |-> ZInt(0)]

CompInit ==
    /\ cs.pc # "trapped"
    /\ cs' = [cs EXCEPT !.pc = "open", !.accum = ct_comp_init(cs.accum),
                        !.addends = <<>>, !.out = ZInt(0)]

CompAdd ==
    /\ cs.pc \in {"open", "finalized"}
    /\ Len(cs.addends) < MaxAdds
    /\ \E v \in SumSamples : \E o \in ct_comp_add(cs.accum, v, cs.faults) :
         cs' = [cs EXCEPT !.pc = IF o.trap THEN "trapped" ELSE "open",
                          !.accum = o.accum, !.faults = o.faults,
                          !.addends = Append(@, v), !.out = ZInt(0)]

CompFinalize ==
    /\ cs.pc = "open"
    /\ LET r == ct_comp_finalize(cs.accum, cs.faults)
       IN  cs' = [cs EXCEPT !.pc = "finalized", !.out = r.val, !.faults = r.faults]

(***************************************************************************)
(* Reduction tree (src/src/dvm/reduction.c).  Node indices are the C       *)
(* indices, from 0; node k is nodes[k + 1] here.  UINT32_MAX, the value of *)
(* CT_LEAF_MARKER and CT_ROOT_MARKER, is written -1 and compared as the    *)
(* largest uint32_t.                                                       *)
(***************************************************************************)

CT_LEAF_MARKER == -1

CT_ROOT_MARKER == -1

CT_MAX_LEAVES == 65536

MAX_STACK_NODES == 256

CT_ERR_CONFIG == -7

\* a < b on uint32_t
ULess32(a, b) == IF a = -1 THEN FALSE ELSE IF b = -1 THEN TRUE ELSE a < b

RECURSIVE ceil_log2_loop(_, _)
\* the while loop of ceil_log2
ceil_log2_loop(val, log) ==
    IF val > 0 THEN ceil_log2_loop(val \div 2, log + 1) ELSE log

\* a ceil_log2 that shifts n instead of n - 1
floor_log2_plus_one(n) ==
    IF n = 0 THEN 0
    ELSE IF n = 1 THEN 0
    ELSE ceil_log2_loop(n, 0)

ceil_log2(n) ==
    IF n = 0 THEN 0
    ELSE IF n = 1 THEN 0
    ELSE ceil_log2_loop(n - 1, 0)

Node(left_child, right_child, op_id, parent) ==
    [left_child |-> left_child, right_child |-> right_child, op_id |-> op_id,
     parent |-> parent, pad |-> 0]

ZeroNode == Node(0, 0, <<>>, 0)

\* a ct_reduction_tree_t together with the node array it points at
Tree(nodes, num_leaves, num_internal, num_nodes, root_index, depth, base_op_id) ==
    [null |-> FALSE, nodes_null |-> FALSE, nodes |-> nodes,
     num_leaves |-> num_leaves, num_internal |-> num_internal,
     num_nodes |-> num_nodes, root_index |-> root_index, depth |-> depth,
     base_op_id |-> base_op_id]

ZeroTree == [Tree(<<>>, 0, 0, 0, 0, 0, <<>>) EXCEPT !.nodes_null = TRUE]

NullTree == [ZeroTree EXCEPT !.null = TRUE]

\* the node array after the loop over the leaves
init_leaves(nodes, num_leaves, base_op_id) ==
    [k \in 1..Len(nodes) |->
        IF k <= num_leaves
        THEN Node(CT_LEAF_MARKER, CT_LEAF_MARKER,
                  UAdd64(base_op_id, MagOfNat(k - 1)), CT_ROOT_MARKER)
        ELSE nodes[k]]

\* a set_parent that names the child's own index as its parent
set_parent_to_itself(nodes, child, num_nodes, node_idx) ==
    IF child # CT_LEAF_MARKER /\ ULess32(child, num_nodes)
    THEN [nodes EXCEPT ![child + 1].parent = child]
    ELSE nodes

\* nodes[child].parent = node_idx, when child is a node of the tree
set_parent(nodes, child, num_nodes, node_idx) ==
    IF child # CT_LEAF_MARKER /\ ULess32(child, num_nodes)
    THEN [nodes EXCEPT ![child + 1].parent = node_idx]
    ELSE nodes

\* the body of the loop over the internal nodes, for i
init_internal_node(nodes, num_leaves, num_nodes, base_op_id, i) ==
    LET node_idx == num_leaves + i
        left     == IF ULess32(2 * i, node_idx) THEN 2 * i
                    ELSE CT_LEAF_MARKER
        right    == IF ULess32(2 * i + 1, node_idx) THEN 2 * i + 1
                    ELSE CT_LEAF_MARKER
        made     == [nodes EXCEPT ![node_idx + 1] =
                       Node(left, right,
                            UAdd64(base_op_id, MagOfNat(node_idx)),
                            CT_ROOT_MARKER)]
    IN  set_parent(set_parent(made, left, num_nodes, node_idx),
                   right, num_nodes, node_idx)

RECURSIVE init_internal_rounds(_, _, _, _, _, _)
\* the rounds lo .. hi - 1 of the loop over the internal nodes, one after the
\* other; taken by halves, the first half worked out before the second is
\* entered, to keep the evaluation shallow
init_internal_rounds(nodes, num_leaves, num_nodes, base_op_id, lo, hi) ==
    IF hi <= lo THEN nodes
    ELSE IF hi = lo + 1
    THEN init_internal_node(nodes, num_leaves, num_nodes, base_op_id, lo)
    ELSE LET first == init_internal_rounds(nodes, num_leaves, num_nodes,
                                           base_op_id, lo, (lo + hi) \div 2)
         IN  IF Len(first) = 0 THEN first
             ELSE init_internal_rounds(first, num_leaves, num_nodes, base_op_id,
                                       (lo + hi) \div 2, hi)

\* the loop over the internal nodes from i on
init_internal(nodes, num_leaves, num_nodes, base_op_id, i) ==
    IF i >= num_leaves - 1 \/ Len(nodes) = 0 THEN nodes
    ELSE init_internal_rounds(nodes, num_leaves, num_nodes, base_op_id,
                              i, num_leaves - 1)

\* the status returned, and the tree and the fault record as the call leaves
\* them; nodes is the caller's array, of ct_reduction_node_count entries
ct_reduction_init(tree, nodes, num_leaves, base_op_id, faults) ==
    IF tree.null \/ nodes.null
    THEN [ret |-> CT_ERR_NULL, tree |-> tree, faults |-> faults]
    ELSE IF num_leaves = 0 \/ num_leaves > CT_MAX_LEAVES
    THEN [ret |-> CT_ERR_CONFIG, tree |-> tree,
          faults |-> SetFault(faults, "domain")]
    ELSE LET num_internal == IF num_leaves > 1 THEN num_leaves - 1 ELSE 0
             num_nodes    == num_leaves + num_internal
             root_index   == IF num_leaves > 1 THEN num_nodes - 1 ELSE 0
             leaves       == init_leaves(nodes.at, num_leaves, base_op_id)
         IN  [ret |-> CT_OK,
              tree |-> Tree(IF num_leaves > 1
                            THEN init_internal(leaves, num_leaves, num_nodes,
                                               base_op_id, 0)
                            ELSE leaves,
                            num_leaves, num_internal, num_nodes, root_index,
                            ceil_log2(num_leaves), base_op_id),
              faults |-> faults]

ct_reduction_node_count(num_leaves) ==
    IF num_leaves = 0 \/ num_leaves > CT_MAX_LEAVES THEN 0
    ELSE 2 * num_leaves - 1

ct_reduction_depth(tree) == IF tree.null THEN 0 ELSE tree.depth

\* one outcome of the loops of ct_reduction_reduce_64: the accumulators and
\* the fault record, or a trap inside a merge
RedOut(accum, faults) == [trap |-> FALSE, accum |-> accum, faults |-> faults]

\* dest = accum[i] merged with accum[child], when the child link is one
merge_child(outs, tree, i, child) ==
    IF child # CT_LEAF_MARKER /\ ULess32(child, tree.num_nodes)
    THEN UNION {IF o.trap THEN {o}
                ELSE {[trap |-> m.trap,
                       accum |-> [o.accum EXCEPT ![i + 1] = m.accum],
                       faults |-> m.faults] :
                      m \in ct_comp_merge(o.accum[i + 1], o.accum[child + 1], o.faults)} :
                o \in outs}
    ELSE outs

\* the body of the loop over the internal nodes, for node i
merge_node(outs, tree, i) ==
    merge_child(merge_child(outs, tree, i, tree.nodes[i + 1].left_child),
                tree, i, tree.nodes[i + 1].right_child)

RECURSIVE merge_from(_, _, _)
\* the loop over the internal nodes in index order from node i on
merge_from(outs, tree, i) ==
    IF i >= tree.num_nodes THEN outs
    ELSE merge_from(merge_node(outs, tree, i), tree, i + 1)

\* the accumulators after both initialisation loops
load_leaves(tree, values) ==
    [k \in 1..tree.num_nodes |->
        IF k <= tree.num_leaves
        THEN ct_comp_init_value(ct_comp_init(Accum(ZInt(0), ZInt(0))), values[k])
        ELSE ct_comp_init(Accum(ZInt(0), ZInt(0)))]

\* finalize of the root accumulator in every outcome
finalize_root(outs, tree) ==
    {IF o.trap THEN SumOut(TRUE, ZInt(0), o.faults)
     ELSE LET r == ct_comp_finalize(o.accum[tree.root_index + 1], o.faults)
          IN  SumOut(FALSE, r.val, r.faults) : o \in outs}

\* the set of outcomes of ct_reduction_reduce_64
ct_reduction_reduce_64(tree, values, faults) ==
    IF tree.null \/ values.null \/ tree.nodes_null
    THEN {SumOut(FALSE, ZInt(0), faults)}
    ELSE IF tree.num_leaves = 0 THEN {SumOut(FALSE, ZInt(0), faults)}
    ELSE IF tree.num_leaves = 1 THEN {SumOut(FALSE, values.at[1], faults)}
    ELSE IF tree.num_nodes > MAX_STACK_NODES
    THEN Finalized(comp_add_from(
             {CompOut(ct_comp_init(Accum(ZInt(0), ZInt(0))),
                      SetFault(faults, "domain"))},
             SubSeq(values.at, 1, tree.num_leaves), 0))
    ELSE finalize_root(merge_from({RedOut(load_leaves(tree, values.at), faults)},
                                  tree, tree.num_leaves),
                       tree)

\* (int64_t)values[i] for each value of an int32_t array
widen(values) == [k \in 1..Len(values) |-> Wrap64(values[k])]

\* the set of outcomes of ct_reduction_reduce_32
ct_reduction_reduce_32(tree, values, faults) ==
    IF tree.null \/ values.null \/ tree.nodes_null
    THEN {SumOut(FALSE, ZInt(0), faults)}
    ELSE IF tree.num_leaves = 0 THEN {SumOut(FALSE, ZInt(0), faults)}
    ELSE IF tree.num_leaves = 1
    THEN {SumOut(FALSE, widen(values.at)[1], faults)}
    ELSE IF tree.num_nodes > MAX_STACK_NODES
    THEN Finalized(comp_add_from(
             {CompOut(ct_comp_init(Accum(ZInt(0), ZInt(0))),
                      SetFault(faults, "domain"))},
             SubSeq(widen(values.at), 1, tree.num_leaves), 0))
    ELSE finalize_root(merge_from({RedOut(load_leaves(tree, widen(values.at)),
                                          faults)},
                                  tree, tree.num_leaves),
                       tree)

\* one outcome of ct_reduction_reduce_traced: what it returns, the fault
\* record, and the calls of the callback so far, each <<node_index, accum>>
TraceOut(trap, val, faults, trace) ==
    [trap |-> trap, val |-> val, faults |-> faults, trace |-> trace]

\* the loops of the traced reduction under way: the accumulators, the fault
\* record and the calls of the callback, or a trap inside a merge
Traced(trap, accum, faults, trace) ==
    [trap |-> trap, accum |-> accum, faults |-> faults, trace |-> trace]

\* callback(i, &accum[i], context), when there is a callback
callback_at(trace, callback_null, i, accum) ==
    IF callback_null THEN trace ELSE Append(trace, <<i, accum[i + 1]>>)

RECURSIVE trace_leaves(_, _, _, _)
\* the callbacks of the loop that loads and traces the leaves, from leaf i on
trace_leaves(tree, accum, callback_null, i) ==
    IF i >= tree.num_leaves THEN <<>>
    ELSE callback_at(<<>>, callback_null, i, accum)
            \o trace_leaves(tree, accum, callback_null, i + 1)

\* the body of the traced loop over the internal nodes, for node i
traced_node(outs, tree, callback_null, i) ==
    UNION {IF o.trap THEN {o}
           ELSE {Traced(m.trap, m.accum, m.faults,
                        IF m.trap THEN o.trace
                        ELSE callback_at(o.trace, callback_null, i, m.accum)) :
                    m \in merge_node({RedOut(o.accum, o.faults)}, tree, i)} :
           o \in outs}

RECURSIVE traced_from(_, _, _, _)
\* the traced loop over the internal nodes in index order from node i on
traced_from(outs, tree, callback_null, i) ==
    IF i >= tree.num_nodes THEN outs
    ELSE traced_from(traced_node(outs, tree, callback_null, i), tree,
                     callback_null, i + 1)

\* the set of outcomes of ct_reduction_reduce_traced; callback_null says that
\* callback is NULL
ct_reduction_reduce_traced(tree, values, callback_null, faults) ==
    IF tree.null \/ values.null \/ tree.nodes_null
    THEN {TraceOut(FALSE, ZInt(0), faults, <<>>)}
    ELSE IF tree.num_leaves = 0 THEN {TraceOut(FALSE, ZInt(0), faults, <<>>)}
    ELSE IF tree.num_leaves = 1
    THEN {TraceOut(FALSE, values.at[1], faults,
                   callback_at(<<>>, callback_null, 0,
                               <<ct_comp_init_value(Accum(ZInt(0), ZInt(0)),
                                                    values.at[1])>>))}
    ELSE IF tree.num_nodes > MAX_STACK_NODES
    THEN {TraceOut(FALSE, ZInt(0), SetFault(faults, "domain"), <<>>)}
    ELSE LET loaded == load_leaves(tree, values.at)
         IN  {IF o.trap THEN TraceOut(TRUE, ZInt(0), o.faults, o.trace)
              ELSE LET r == ct_comp_finalize(o.accum[tree.root_index + 1],
                                             o.faults)
                   IN  TraceOut(FALSE, r.val, r.faults, o.trace) :
                 o \in traced_from({Traced(FALSE, loaded, faults,
                                           trace_leaves(tree, loaded,
                                                        callback_null, 0))},
                                   tree, callback_null, tree.num_leaves)}

(***************************************************************************)
(* A caller that builds a tree for its batch and reduces its values        *)
(***************************************************************************)

\* trees are built for up to this many leaves
MaxLeaves == 70

\* arrays of up to this many values are reduced
MaxValues == 5

\* the values reduced: small ones and the ends of int64_t
ReduceSamples == {ZInt(1), ZInt(-1), INT64_MAX, INT64_MIN}

\* the least batch size whose tree has more than MAX_STACK_NODES nodes
SpillLeaves == MAX_STACK_NODES \div 2 + 1

\* a values pointer: NULL, or an array
Values(at) == [null |-> FALSE, at |-> at]

NoValues == [null |-> TRUE, at |-> <<>>]

\* the caller's batch size and values, the fault record, and what the calls
\* returned; accum and merged are the accumulators of a reduction under way
\* and the internal nodes it has merged, ascending whether it merged them in
\* index order
RdNew(n, values, nodes_null) ==
    [pc |-> "new", n |-> n, values |-> values, nodes_null |-> nodes_null,
     faults |-> NoFaults, ret |-> CT_OK, depth |-> 0,
     out |-> SumOut(FALSE, ZInt(0), NoFaults),
     accum |-> <<>>, merged |-> {}, ascending |-> TRUE, trace |-> <<>>]

\* the node array the caller hands to ct_reduction_init
NodeBuffer(n, nodes_null) ==
    [null |-> nodes_null, at |-> [k \in 1..ct_reduction_node_count(n) |-> ZeroNode]]

ReductionInit ==
    /\ rd.pc = "new"
    /\ LET r == ct_reduction_init(ZeroTree, NodeBuffer(rd.n, rd.nodes_null), rd.n,
                                  <<>>, rd.faults)
       IN  /\ rtree' = r.tree
           /\ rd' = [rd EXCEPT !.pc = IF r.ret = CT_OK THEN "built" ELSE "failed",
                               !.ret = r.ret, !.faults = r.faults]

ReductionDepth ==
    /\ rd.pc = "built"
    /\ rd' = [rd EXCEPT !.pc = "asked", !.depth = ct_reduction_depth(rtree)]
    /\ UNCHANGED rtree

Reduce64 ==
    /\ rd.pc = "built"
    /\ \E o \in ct_reduction_reduce_64(rtree, rd.values, rd.faults) :
         rd' = [rd EXCEPT !.pc = IF o.trap THEN "trapped" ELSE "reduced",
                          !.out = o, !.faults = o.faults]
    /\ UNCHANGED rtree

\* the caller reduces its array as an int32_t array when every value is one
Reduce32 ==
    /\ rd.pc = "built"
    /\ \A k \in 1..Len(rd.values.at) : InInt32(rd.values.at[k])
    /\ \E o \in ct_reduction_reduce_32(rtree, rd.values, rd.faults) :
         rd' = [rd EXCEPT !.pc = IF o.trap THEN "trapped32" ELSE "reduced32",
                          !.out = o, !.faults = o.faults]
    /\ UNCHANGED rtree

ReduceTraced ==
    /\ rd.pc = "built"
    /\ \E callback_null \in {FALSE, TRUE} :
       \E o \in ct_reduction_reduce_traced(rtree, rd.values, callback_null,
                                           rd.faults) :
         rd' = [rd EXCEPT !.pc = IF o.trap THEN "trappedtraced" ELSE "traced",
                          !.out = SumOut(o.trap, o.val, o.faults),
                          !.faults = o.faults, !.trace = o.trace]
    /\ UNCHANGED rtree

\* the internal nodes of the tree
Internal(t) == t.num_leaves..(t.num_nodes - 1)

\* the children of node i that are nodes of the tree
Children(t, i) ==
    {c \in {t.nodes[i + 1].left_child, t.nodes[i + 1].right_child} :
        c # CT_LEAF_MARKER /\ ULess32(c, t.num_nodes)}

\* a scheduler that merges before the children are complete
ready_at_once(t, merged, i) == i \in Internal(t) \ merged

\* node i has not been merged and each of its children is a leaf or has been
Ready(t, merged, i) ==
    /\ i \in Internal(t) \ merged
    /\ \A c \in Children(t, i) : c < t.num_leaves \/ c \in merged

\* the reduction of ct_reduction_reduce_64 taken apart: the two initialising
\* loops, the loop body for one internal node at a time in whatever order the
\* children allow, and the finalize of the root
ReduceLoad ==
    /\ rd.pc = "built" /\ ~rd.values.null
    /\ rtree.num_leaves > 1 /\ rtree.num_nodes <= MAX_STACK_NODES
    /\ rd' = [rd EXCEPT !.pc = "merging",
                        !.accum = load_leaves(rtree, rd.values.at),
                        !.merged = {}]
    /\ UNCHANGED rtree

MergeNode ==
    /\ rd.pc = "merging"
    /\ \E i \in Internal(rtree) :
         /\ Ready(rtree, rd.merged, i)
         /\ \E o \in merge_node({RedOut(rd.accum, rd.faults)}, rtree, i) :
              rd' = [rd EXCEPT !.pc = IF o.trap THEN "trapped" ELSE "merging",
                               !.accum = o.accum, !.faults = o.faults,
                               !.merged = @ \cup {i},
                               !.ascending =
                                   @ /\ \A k \in Internal(rtree) \ rd.merged : i <= k]
    /\ UNCHANGED rtree

ReduceFinish ==
    /\ rd.pc = "merging" /\ rd.merged = Internal(rtree)
    /\ \E o \in finalize_root({RedOut(rd.accum, rd.faults)}, rtree) :
         rd' = [rd EXCEPT !.pc = "finished", !.out = o, !.faults = o.faults]
    /\ UNCHANGED rtree

TreeIdle ==
    /\ rtree = ZeroTree
    /\ rd = RdNew(0, NoValues, FALSE)

SumIdle == cs = CsIdle /\ TreeIdle

(***************************************************************************)
(* Cycle-walking Feistel permutation and batches                           *)
(* (src/src/training/permutation.c).  Indices, dataset sizes and the       *)
(* cached parameters are below 2^31 and are plain numbers; the seed, the   *)
(* 32-bit hash, batch sizes, steps per epoch and global steps are limb     *)
(* sequences.                                                              *)
(***************************************************************************)

CT_PERM_FEISTEL_ROUNDS == 4

CT_PERM_MAX_DATASET_SIZE == 2^30

CT_ERR_DIMENSION == -2

\* the multipliers of ct_feistel_hash: 0x9E3779B9, 0x85EBCA6B, 0xC2B2AE35
FEISTEL_MUL_EPOCH == Words64(0, 0, 40503, 31161)

FEISTEL_MUL_ROUND == Words64(0, 0, 34283, 51819)

FEISTEL_MUL_VALUE == Words64(0, 0, 49842, 44597)

\* (uint32_t)((uint64_t)h * mul + add)
HashStep(h, mul, add) == MagLow(UAdd64(UMul64(h, mul), add), 32)

RECURSIVE hash_lines(_, _, _, _)
\* the lines of ct_feistel_hash one after the other; done holds the values h
\* has taken so far, and the last one is returned
hash_lines(done, epoch, round, value) ==
    LET h == done[Len(done)]
    IN  IF Len(done) = 1
        THEN hash_lines(Append(done, HashStep(h, FEISTEL_MUL_EPOCH, MagOfNat(epoch))),
                        epoch, round, value)
        ELSE IF Len(done) = 2
        THEN hash_lines(Append(done, HashStep(h, FEISTEL_MUL_ROUND, MagOfNat(round))),
                        epoch, round, value)
        ELSE IF Len(done) = 3
        THEN hash_lines(Append(done, HashStep(h, FEISTEL_MUL_VALUE, MagOfNat(value))),
                        epoch, round, value)
        ELSE IF Len(done) = 4
        THEN hash_lines(Append(done, MagXor(h, MagShr(h, 16))), epoch, round, value)
        ELSE IF Len(done) = 5
        THEN hash_lines(Append(done, HashStep(h, FEISTEL_MUL_ROUND, <<>>)),
                        epoch, round, value)
        ELSE MagXor(h, MagShr(h, 13))

\* the hash as the code computes it; round and value are numbers
feistel_hash_mix(seed, epoch, round, value) ==
    hash_lines(<<MagLow(seed, 32)>>, epoch, round, value)

\* ceil_log2 of permutation.c: at least 1
ceil_log2_bits(n) == IF n <= 1 THEN 1 ELSE ceil_log2_loop(n - 1, 0)

\* a ct_permutation_t
Perm(seed, epoch, dataset_size, half_bits, half_mask, range, initialized) ==
    [null |-> FALSE, seed |-> seed, epoch |-> epoch,
     dataset_size |-> dataset_size, half_bits |-> half_bits,
     half_mask |-> half_mask, range |-> range, initialized |-> initialized]

ZeroPerm == Perm(<<>>, 0, 0, 0, 0, 0, FALSE)

NullPerm == [ZeroPerm EXCEPT !.null = TRUE]

compute_params(perm) ==
    LET k0 == ceil_log2_bits(perm.dataset_size)
        k  == IF k0 % 2 = 1 THEN k0 + 1 ELSE k0
    IN  [perm EXCEPT !.range = 2^k, !.half_bits = k \div 2,
                     !.half_mask = 2^(k \div 2) - 1]

\* permutations are built for datasets of up to this many samples
MaxDataset == 20

\* the seeds and epochs of the tests
PermSeedSamples == {MagOfNat(42), MagOfNat(12345)}

PermEpochSamples == {0, 1}

PermKeySamples == PermSeedSamples \X PermEpochSamples

\* the halves of an index hashed for datasets of up to MaxDataset + 1 samples
HalfSamples ==
    0..compute_params([ZeroPerm EXCEPT !.dataset_size = MaxDataset + 1]).half_mask

\* the hash on the sampled keys, every round and every half of an index,
\* computed once: @@ makes a table of the function
HashOnSamples ==
    [q \in PermSeedSamples \X PermEpochSamples
             \X (0..(CT_PERM_FEISTEL_ROUNDS - 1)) \X HalfSamples |->
        feistel_hash_mix(q[1], q[2], q[3], q[4])] @@ <<>>

ct_feistel_hash(seed, epoch, round, value) ==
    IF <<seed, epoch, round, value>> \in DOMAIN HashOnSamples
    THEN HashOnSamples[<<seed, epoch, round, value>>]
    ELSE feistel_hash_mix(seed, epoch, round, value)

\* the status returned and the object as the call leaves it
ct_permutation_init(perm, seed, epoch, dataset_size) ==
    IF perm.null THEN [ret |-> CT_ERR_NULL, perm |-> perm]
    ELSE IF dataset_size = 0 \/ dataset_size > CT_PERM_MAX_DATASET_SIZE
    THEN [ret |-> CT_ERR_DIMENSION, perm |-> perm]
    ELSE [ret |-> CT_OK,
          perm |-> [compute_params([perm EXCEPT !.seed = seed, !.epoch = epoch,
                                                !.dataset_size = dataset_size])
                    EXCEPT !.initialized = TRUE]]

ct_permutation_set_epoch(perm, epoch) ==
    IF ~perm.null /\ perm.initialized THEN [perm EXCEPT !.epoch = epoch] ELSE perm

\* F & perm->half_mask
MaskedHash(perm, round, value) ==
    Limb(MagLow(ct_feistel_hash(perm.seed, perm.epoch, round, value),
                perm.half_bits), 1)

RECURSIVE forward_rounds(_, _)
\* the loop of feistel_forward and the word it returns; done holds <<L, R>>
\* as they were on entry and after each round so far
forward_rounds(perm, done) ==
    LET r == Len(done) - 1
        L == done[Len(done)][1]
        R == done[Len(done)][2]
    IN  IF r >= CT_PERM_FEISTEL_ROUNDS THEN R * 2^perm.half_bits + L
        ELSE forward_rounds(perm,
                 Append(done, <<R, LimbXor(L, MaskedHash(perm, r, R))>>))

\* a Feistel network whose round function replaces the left half
forward_without_xor(perm, input) ==
    LET R0 == (input \div 2^perm.half_bits) % (perm.half_mask + 1)
        R1 == MaskedHash(perm, 0, R0)
        R2 == MaskedHash(perm, 1, R1)
        R3 == MaskedHash(perm, 2, R2)
    IN  MaskedHash(perm, 3, R3) * 2^perm.half_bits + R3

feistel_forward(perm, input) ==
    forward_rounds(perm, <<<<input % (perm.half_mask + 1),
                             (input \div 2^perm.half_bits) % (perm.half_mask + 1)>>>>)

RECURSIVE inverse_rounds(_, _)
\* the loop of feistel_inverse and the word it returns; done holds <<L, R>>
\* as they were on entry and after each round so far
inverse_rounds(perm, done) ==
    LET r == CT_PERM_FEISTEL_ROUNDS - Len(done)
        L == done[Len(done)][1]
        R == done[Len(done)][2]
    IN  IF r < 0 THEN R * 2^perm.half_bits + L
        ELSE inverse_rounds(perm,
                 Append(done, <<LimbXor(R, MaskedHash(perm, r, L)), L>>))

\* a feistel_inverse that takes the rounds in the order of feistel_forward
inverse_rounds_ascending(perm, input) ==
    LET L0 == input % (perm.half_mask + 1)
        R0 == (input \div 2^perm.half_bits) % (perm.half_mask + 1)
        L1 == LimbXor(R0, MaskedHash(perm, 0, L0))
        L2 == LimbXor(L0, MaskedHash(perm, 1, L1))
        L3 == LimbXor(L1, MaskedHash(perm, 2, L2))
        L4 == LimbXor(L2, MaskedHash(perm, 3, L3))
    IN  L3 * 2^perm.half_bits + L4

feistel_inverse(perm, input) ==
    inverse_rounds(perm, <<<<input % (perm.half_mask + 1),
                             (input \div 2^perm.half_bits) % (perm.half_mask + 1)>>>>)

\* what a call on the permutation returns and the fault record it leaves
PermOut(val, faults) == [val |-> val, faults |-> faults]

\* a cycle walk that gives up after its first Feistel application
walk_forward_once(perm, index, i, iterations, faults) ==
    LET next == feistel_forward(perm, i)
    IN  IF next >= perm.dataset_size
        THEN PermOut(index % perm.dataset_size, SetFault(faults, "domain"))
        ELSE PermOut(next, faults)

RECURSIVE walk_forward(_, _, _, _, _)
\* the do-while loop of ct_permutation_apply
walk_forward(perm, index, i, iterations, faults) ==
    IF iterations >= perm.range
    THEN PermOut(index % perm.dataset_size, SetFault(faults, "domain"))
    ELSE LET next == feistel_forward(perm, i)
         IN  IF next >= perm.dataset_size
             THEN walk_forward(perm, index, next, iterations + 1, faults)
             ELSE PermOut(next, faults)

ct_permutation_apply(perm, index, faults) ==
    IF perm.null \/ ~perm.initialized THEN PermOut(0, SetFault(faults, "domain"))
    ELSE IF index >= perm.dataset_size
    THEN PermOut(index % perm.dataset_size, SetFault(faults, "domain"))
    ELSE IF perm.dataset_size = 1 THEN PermOut(0, faults)
    ELSE walk_forward(perm, index, index, 0, faults)

RECURSIVE walk_inverse(_, _, _, _, _)
\* the do-while loop of ct_permutation_inverse
walk_inverse(perm, index, i, iterations, faults) ==
    IF iterations >= perm.range
    THEN PermOut(index % perm.dataset_size, SetFault(faults, "domain"))
    ELSE LET next == feistel_inverse(perm, i)
         IN  IF next >= perm.dataset_size
             THEN walk_inverse(perm, index, next, iterations + 1, faults)
             ELSE PermOut(next, faults)

ct_permutation_inverse(perm, permuted_index, faults) ==
    IF perm.null \/ ~perm.initialized THEN PermOut(0, SetFault(faults, "domain"))
    ELSE IF permuted_index >= perm.dataset_size
    THEN PermOut(permuted_index % perm.dataset_size, SetFault(faults, "domain"))
    ELSE IF perm.dataset_size = 1 THEN PermOut(0, faults)
    ELSE walk_inverse(perm, permuted_index, permuted_index, 0, faults)

\* a ct_batch_ctx_t
BatchCtx(p, batch_size, steps_per_epoch) ==
    [null |-> FALSE, perm |-> p, batch_size |-> batch_size,
     steps_per_epoch |-> steps_per_epoch]

ZeroBatchCtx == BatchCtx(ZeroPerm, <<>>, <<>>)

NullBatchCtx == [ZeroBatchCtx EXCEPT !.null = TRUE]

\* uint32_t arithmetic: the result modulo 2^32
UAdd32(a, b) == MagLow(MagAdd(a, b), 32)

USub32(a, b) == MagLow(MagSub(MagAdd(a, MagPow2(32)), b), 32)

UMul32(a, b) == MagLow(MagMul(a, b), 32)

\* the status returned and the context as the call leaves it
ct_batch_init(bc, seed, epoch, dataset_size, batch_size) ==
    IF bc.null THEN [ret |-> CT_ERR_NULL, ctx |-> bc]
    ELSE IF batch_size = <<>> THEN [ret |-> CT_ERR_DIMENSION, ctx |-> bc]
    ELSE LET r == ct_permutation_init(bc.perm, seed, epoch, dataset_size)
         IN  IF r.ret # CT_OK THEN [ret |-> r.ret, ctx |-> bc]
             ELSE [ret |-> CT_OK,
                   ctx |-> BatchCtx(r.perm, batch_size,
                               MagDivMod(USub32(UAdd32(MagOfNat(dataset_size),
                                                       batch_size), <<1>>),
                                         batch_size).q)]

\* what ct_batch_get_size returns, or a trap in the division
SizeOut(trap, size) == [trap |-> trap, size |-> size]

\* the rest of ct_batch_get_size once step % steps_per_epoch is known
size_at(bc, step_in_epoch) ==
    IF step_in_epoch = USub32(bc.steps_per_epoch, <<1>>)
    THEN LET remaining == USub32(MagOfNat(bc.perm.dataset_size),
                                 UMul32(step_in_epoch, bc.batch_size))
         IN  IF MagCmp(remaining, bc.batch_size) < 0 THEN remaining
             ELSE bc.batch_size
    ELSE bc.batch_size

\* the set of outcomes of ct_batch_get_size.  With steps_per_epoch zero the
\* remainder is undefined: the division traps, or it yields the dividend
ct_batch_get_size(bc, step) ==
    IF bc.null \/ ~bc.perm.initialized THEN {SizeOut(FALSE, <<>>)}
    ELSE IF bc.steps_per_epoch = <<>>
    THEN {SizeOut(TRUE, <<>>), SizeOut(FALSE, size_at(bc, MagLow(step, 32)))}
    ELSE {SizeOut(FALSE,
                  size_at(bc, MagLow(MagDivMod(step, bc.steps_per_epoch).r, 32)))}

\* a uint32_t below 2^31 as an integer of the model
SmallOfMag(m) == Limb(m, 1) + Base * Limb(m, 2) + Base * Base * Limb(m, 3)

\* the entries of indices_out the model keeps: all of them for the batch sizes
\* up to MaxBatch, the first ones of a longer batch
IndexWindow == MaxDataset + 1

\* the body of the loop of ct_batch_get_indices: the call of apply that
\* yields indices_out[j]
index_at(bc, step_in_epoch, j, faults) ==
    LET N          == MagOfNat(bc.perm.dataset_size)
        base_index == MagMul(step_in_epoch, bc.batch_size)
        linear_idx == MagAdd(base_index, MagOfNat(j))
    IN  IF MagCmp(linear_idx, N) >= 0
        THEN ct_permutation_apply(bc.perm, SmallOfMag(MagDivMod(linear_idx, N).r),
                                  faults)
        ELSE ct_permutation_apply(bc.perm, SmallOfMag(linear_idx), faults)

RECURSIVE fill_indices(_, _, _, _, _)
\* the loop of ct_batch_get_indices from j = Len(done) on, up to j = upto - 1
fill_indices(bc, step_in_epoch, done, faults, upto) ==
    IF Len(done) >= upto THEN [indices |-> done, faults |-> faults]
    ELSE LET r == index_at(bc, step_in_epoch, Len(done), faults)
         IN  fill_indices(bc, step_in_epoch, Append(done, r.val), r.faults, upto)

\* what ct_batch_get_indices returns, the entries of indices_out and the
\* fault record as it leaves them, or a trap in the division
IndicesOut(trap, ret, indices, faults) ==
    [trap |-> trap, ret |-> ret, indices |-> indices, faults |-> faults]

\* the rest of ct_batch_get_indices once step % steps_per_epoch is known
indices_at(bc, step_in_epoch, faults) ==
    LET kept == IF MagCmp(bc.batch_size, MagOfNat(IndexWindow)) < 0
                THEN SmallOfMag(bc.batch_size) ELSE IndexWindow
        r    == fill_indices(bc, step_in_epoch, <<>>, faults, kept)
    IN  IndicesOut(FALSE, CT_OK, r.indices, r.faults)

\* the set of outcomes of ct_batch_get_indices; out_null says that
\* indices_out is NULL.  With steps_per_epoch zero the remainder is
\* undefined: the division traps, or it yields the dividend
ct_batch_get_indices(bc, step, out_null, faults) ==
    IF bc.null \/ out_null THEN {IndicesOut(FALSE, CT_ERR_NULL, <<>>, faults)}
    ELSE IF ~bc.perm.initialized
    THEN {IndicesOut(FALSE, CT_ERR_STATE, <<>>, faults)}
    ELSE IF bc.steps_per_epoch = <<>>
    THEN {IndicesOut(TRUE, CT_OK, <<>>, faults),
          indices_at(bc, MagLow(step, 32), faults)}
    ELSE {indices_at(bc, MagLow(MagDivMod(step, bc.steps_per_epoch).r, 32),
                     faults)}

(***************************************************************************)
(* A caller of the permutation and of the batch context                    *)
(***************************************************************************)

\* batches of up to this many samples are asked for
MaxBatch == 4

\* global steps up to this one are asked about
MaxGlobalStep == 12

UINT32_MAX == MagSub(MagPow2(32), <<1>>)

\* the dataset sizes handed to init: none, small ones, one too large
DatasetSamples == 0..MaxDataset \cup {CT_PERM_MAX_DATASET_SIZE + 1}

\* the batch sizes handed to ct_batch_init: none, small ones, the largest
BatchSizeSamples == {MagOfNat(b) : b \in 0..MaxBatch} \cup {UINT32_MAX}

\* the global steps asked about: the first ones and one beyond 32 bits
StepSamples == {MagOfNat(t) : t \in 0..MaxGlobalStep} \cup {MagPow2(32)}

\* what the caller hands to ct_permutation_init or ct_batch_init; null says
\* that the object pointer is NULL
PermArgs(seed, epoch, dataset_size, batch_size, null) ==
    [seed |-> seed, epoch |-> epoch, dataset_size |-> dataset_size,
     batch_size |-> batch_size, null |-> null]

NoPermArgs == PermArgs(<<>>, 0, 0, <<>>, FALSE)

PermInitSamples ==
    {PermArgs(k[1], k[2], n, <<>>, FALSE) : k \in PermKeySamples, n \in DatasetSamples}
        \cup {PermArgs(MagOfNat(42), 0, 1, <<>>, TRUE)}

BatchInitSamples ==
    {PermArgs(MagOfNat(42), e, n, b, FALSE) :
        e \in PermEpochSamples, n \in DatasetSamples, b \in BatchSizeSamples}
        \cup {PermArgs(MagOfNat(42), 0, 1, <<1>>, TRUE)}

\* the indices and fault records handed to apply and inverse: every index up
\* to one past the dataset, and no fault record with the first index beyond
PermIndexSamples ==
    {<<i, NoFaults>> : i \in 0..(pm.dataset_size + 1)}
        \cup {<<pm.dataset_size, NullFaults>>}

\* the last call: operation, status, what init was handed, the index or epoch
\* handed in, the index returned and the fault record; for ct_batch_get_size
\* the step, the size returned, and whether the call trapped
PermCall(op, ret, index, val, faults) ==
    [op |-> op, ret |-> ret, args |-> NoPermArgs, index |-> index, val |-> val,
     faults |-> faults, step |-> <<>>, size |-> <<>>, trap |-> FALSE,
     indices |-> <<>>]

NoPermCall == PermCall("none", CT_OK, 0, 0, NoFaults)

\* the caller before its call of init
PermNew(args) == [PermCall("new", CT_OK, 0, 0, NoFaults) EXCEPT !.args = args]

PermutationInit ==
    /\ pcall.op = "new"
    /\ LET a == pcall.args
           r == ct_permutation_init(IF a.null THEN NullPerm ELSE pm,
                                    a.seed, a.epoch, a.dataset_size)
       IN  /\ pm' = IF a.null THEN pm ELSE r.perm
           /\ pcall' = [pcall EXCEPT !.op = "init", !.ret = r.ret]
    /\ UNCHANGED bctx

PermutationSetEpoch ==
    /\ pcall.op # "new"
    /\ \E epoch \in PermEpochSamples :
         /\ pm' = ct_permutation_set_epoch(pm, epoch)
         /\ pcall' = [PermCall("set_epoch", CT_OK, epoch, 0, NoFaults)
                      EXCEPT !.args = pcall.args]
    /\ UNCHANGED bctx

PermutationApply ==
    /\ pcall.op # "new"
    /\ \E a \in PermIndexSamples :
         LET r == ct_permutation_apply(pm, a[1], a[2])
         IN  pcall' = [PermCall("apply", CT_OK, a[1], r.val, r.faults)
                       EXCEPT !.args = pcall.args]
    /\ UNCHANGED <<pm, bctx>>

PermutationInverse ==
    /\ pcall.op # "new"
    /\ \E a \in PermIndexSamples :
         LET r == ct_permutation_inverse(pm, a[1], a[2])
         IN  pcall' = [PermCall("inverse", CT_OK, a[1], r.val, r.faults)
                       EXCEPT !.args = pcall.args]
    /\ UNCHANGED <<pm, bctx>>

BatchInit ==
    /\ pcall.op = "new"
    /\ LET a == pcall.args
           r == ct_batch_init(IF a.null THEN NullBatchCtx ELSE bctx,
                              a.seed, a.epoch, a.dataset_size, a.batch_size)
       IN  /\ bctx' = IF a.null THEN bctx ELSE r.ctx
           /\ pcall' = [pcall EXCEPT !.op = "batch_init", !.ret = r.ret]
    /\ UNCHANGED pm

BatchGetSize ==
    /\ pcall.op # "new"
    /\ \E step \in StepSamples : \E o \in ct_batch_get_size(bctx, step) :
         pcall' = [PermCall("get_size", CT_OK, 0, 0, NoFaults)
                   EXCEPT !.args = pcall.args, !.step = step, !.size = o.size,
                          !.trap = o.trap]
    /\ UNCHANGED <<pm, bctx>>

\* the caller asks for the indices of any step right after init, and then of
\* the step it asked about last
BatchGetIndices ==
    /\ pcall.op # "new"
    /\ \E step \in IF pcall.op \in {"get_size", "get_indices"} THEN {pcall.step}
                    ELSE StepSamples :
       \E out_null \in {FALSE, TRUE} :
         \E o \in ct_batch_get_indices(bctx, step, out_null, NoFaults) :
            pcall' = [PermCall("get_indices", o.ret, 0, 0, o.faults)
                      EXCEPT !.args = pcall.args, !.step = step,
                             !.trap = o.trap, !.indices = o.indices]
    /\ UNCHANGED <<pm, bctx>>

PermIdle ==
    /\ pm = ZeroPerm
    /\ bctx = ZeroBatchCtx
    /\ pcall = NoPermCall

(***************************************************************************)
(* Checkpoint serialization (checkpoint.c).  A buffer is a sequence of     *)
(* bytes; a uint32_t or uint64_t read from it is a wide natural number.    *)
(* A digest, which the model keeps as the message it was computed from,    *)
(* takes CT_HASH_SIZE cells of a buffer, the first of them carrying it.    *)
(* The step, epoch, PRNG state and timestamp of the buffers deserialized   *)
(* here are below 2^31, as those of the checkpoints are.                   *)
(***************************************************************************)

CT_ERR_MEMORY == -9

\* "CTCK" read as a little-endian uint32_t
CT_CHECKPOINT_MAGIC == 1262703683

CT_CHECKPOINT_SERIAL_SIZE ==
    4 + 4 + 8 + 4 + CT_HASH_SIZE + CT_HASH_SIZE + CT_HASH_SIZE + 8 + 8 + 8 + 4 + 8

\* buf[0] | buf[1] << 8 | ..., for the four bytes of read_le32 and the eight
\* of read_le64
RECURSIVE read_le(_)
read_le(bytes) ==
    IF bytes = <<>> THEN <<>>
    ELSE MagAdd(MagOfNat(Head(bytes)), MagShl(read_le(Tail(bytes)), 8))

read_le32(buf, p) == read_le(SubSeq(buf, p + 1, p + 4))

read_le64(buf, p) == read_le(SubSeq(buf, p + 1, p + 8))

\* (uint8_t)((val >> 8 * i) & 0xFF) for i below n: write_le32 and write_le64
\* of a wide val
write_le(val, n) == [i \in 1..n |-> SmallOfMag(MagLow(MagShr(val, 8 * (i - 1)), 8))]

\* a version test that reads the version as an int32_t
version_above_signed(version) ==
    MagCmp(version, MagPow2(31)) < 0
    /\ MagCmp(version, MagOfNat(CT_CHECKPOINT_VERSION)) > 0

\* checkpoint->version > CT_CHECKPOINT_VERSION, in uint32_t
version_above(version) == MagCmp(version, MagOfNat(CT_CHECKPOINT_VERSION)) > 0

\* the fault flags packed into 32 bits
pack_flags(f) ==
    f.overflow + 2 * f.underflow + 4 * f.div_zero + 8 * f.domain + 16 * f.grad_floor

\* (flags & bit) ? 1 : 0, for bit = 1 << k
flag_bit(flags, k) == SmallOfMag(MagLow(MagShr(flags, k), 1))

\* memcpy(p, hash, CT_HASH_SIZE)
hash_cells(hash) == <<hash>> \o [i \in 1..CT_HASH_SIZE - 1 |-> 0]

\* memcpy(hash, p, CT_HASH_SIZE), p at the offset
hash_at(buf, p) == buf[p + 1]

\* a pointer to a byte buffer, or null
Buffer(at) == [null |-> FALSE, at |-> at]

NullBuffer == [null |-> TRUE, at |-> <<>>]

\* the value returned and the buffer as the call leaves it
ct_checkpoint_serialize(checkpoint, buffer, buffer_size) ==
    IF checkpoint.null \/ buffer.null THEN [ret |-> CT_ERR_NULL, buffer |-> buffer]
    ELSE IF buffer_size < CT_CHECKPOINT_SERIAL_SIZE
    THEN [ret |-> CT_ERR_MEMORY, buffer |-> buffer]
    ELSE LET written == write_u32_le(CT_CHECKPOINT_MAGIC)
                        \o write_le(checkpoint.version, 4)
                        \o write_u64_le(checkpoint.step)
                        \o write_u32_le(checkpoint.epoch)
                        \o hash_cells(checkpoint.merkle_hash)
                        \o hash_cells(checkpoint.weights_hash)
                        \o hash_cells(checkpoint.config_hash)
                        \o write_u64_le(checkpoint.prng_state.seed)
                        \o write_u64_le(checkpoint.prng_state.op_id)
                        \o write_u64_le(checkpoint.prng_state.step)
                        \o write_u32_le(pack_flags(checkpoint.fault_flags))
                        \o write_u64_le(checkpoint.timestamp)
         IN  [ret |-> Len(written),
              buffer |-> Buffer(written \o SubSeq(buffer.at, Len(written) + 1,
                                                  Len(buffer.at)))]

\* the status returned and the checkpoint as the call leaves it
ct_checkpoint_deserialize(buffer, buffer_size, checkpoint) ==
    IF buffer.null \/ checkpoint.null THEN [ret |-> CT_ERR_NULL, ckpt |-> checkpoint]
    ELSE IF buffer_size < CT_CHECKPOINT_SERIAL_SIZE
    THEN [ret |-> CT_ERR_MEMORY, ckpt |-> checkpoint]
    ELSE IF read_le32(buffer.at, 0) # MagOfNat(CT_CHECKPOINT_MAGIC)
    THEN [ret |-> CT_ERR_HASH, ckpt |-> checkpoint]
    ELSE LET version == read_le32(buffer.at, 4)
             flags   == read_le32(buffer.at, 44 + 3 * CT_HASH_SIZE)
             c1      == [checkpoint EXCEPT !.version = version]
         IN  IF version_above(version) THEN [ret |-> CT_ERR_CONFIG, ckpt |-> c1]
             ELSE [ret |-> CT_OK,
                   ckpt |->
                     [c1 EXCEPT
                        !.step = SmallOfMag(read_le64(buffer.at, 8)),
                        !.epoch = SmallOfMag(read_le32(buffer.at, 16)),
                        !.merkle_hash = hash_at(buffer.at, 20),
                        !.weights_hash = hash_at(buffer.at, 20 + CT_HASH_SIZE),
                        !.config_hash = hash_at(buffer.at, 20 + 2 * CT_HASH_SIZE),
                        !.prng_state =
                           [checkpoint.prng_state EXCEPT
                              !.seed = SmallOfMag(read_le64(buffer.at,
                                                            20 + 3 * CT_HASH_SIZE)),
                              !.op_id = SmallOfMag(read_le64(buffer.at,
                                                             28 + 3 * CT_HASH_SIZE)),
                              !.step = SmallOfMag(read_le64(buffer.at,
                                                            36 + 3 * CT_HASH_SIZE))],
                        !.fault_flags =
                           [checkpoint.fault_flags EXCEPT
                              !.overflow = flag_bit(flags, 0),
                              !.underflow = flag_bit(flags, 1),
                              !.div_zero = flag_bit(flags, 2),
                              !.domain = flag_bit(flags, 3),
                              !.grad_floor = flag_bit(flags, 4)],
                        !.timestamp = SmallOfMag(read_le64(buffer.at,
                                                           48 + 3 * CT_HASH_SIZE))]]

(***************************************************************************)
(* A caller that writes its checkpoint to a buffer and reads it back       *)
(***************************************************************************)

\* the caller's buffer has room for one byte more than a checkpoint takes
BufferRoom == CT_CHECKPOINT_SERIAL_SIZE + 1

\* the buffer sizes the caller passes
SizeSamples == {CT_CHECKPOINT_SERIAL_SIZE - 1, CT_CHECKPOINT_SERIAL_SIZE, BufferRoom}

\* the buffer, and whether it holds a serialized checkpoint ("written") that
\* was altered since ("altered") or was read back ("read")
NoWire == [state |-> "blank", at |-> [i \in 1..BufferRoom |-> 0]]

\* what may happen to a stored checkpoint: bytes of the magic, of the version
\* and of the fault flags are replaced; each is a buffer offset and the bytes
\* put there
Alterations ==
    {<<3, <<74>>>>, <<0, <<0, 84, 67, 75, 3>>>>,
     <<4, <<3, 0, 0, 0>>>>, <<4, <<1, 0, 0, 0>>>>, <<4, <<0, 1, 0, 0>>>>,
     <<4, <<255, 255, 255, 255>>>>,
     <<44 + 3 * CT_HASH_SIZE, <<2>>>>, <<44 + 3 * CT_HASH_SIZE, <<4>>>>,
     <<44 + 3 * CT_HASH_SIZE, <<8>>>>, <<44 + 3 * CT_HASH_SIZE, <<16>>>>,
     <<44 + 3 * CT_HASH_SIZE, <<0>>>>}

\* the buffer with the bytes put at the offset
Altered(at, alt) ==
    [i \in 1..Len(at) |->
        IF i > alt[1] /\ i <= alt[1] + Len(alt[2]) THEN alt[2][i - alt[1]] ELSE at[i]]

\* the arguments of the calls on the buffer: good ones with each size, and one
\* pointer off at a time
BufferArgs ==
    {[cpnull |-> FALSE, bnull |-> FALSE, size |-> size] : size \in SizeSamples}
    \cup {[cpnull |-> TRUE, bnull |-> FALSE, size |-> CT_CHECKPOINT_SERIAL_SIZE],
          [cpnull |-> FALSE, bnull |-> TRUE, size |-> CT_CHECKPOINT_SERIAL_SIZE]}

\* the caller stores the checkpoint it has just created, and tries again
\* when the call fails
CheckpointSerialize ==
    /\ wire.state = "blank"
    /\ call.op = "serialize" \/ (call.op = "create" /\ call.ret = CT_OK)
    /\ \E a \in BufferArgs :
        LET r == ct_checkpoint_serialize(IF a.cpnull THEN NullCheckpoint ELSE ckpt,
                                         IF a.bnull THEN NullBuffer ELSE Buffer(wire.at),
                                         a.size)
        IN  /\ wire' = IF a.bnull THEN wire
                       ELSE [state |-> IF r.ret > 0 THEN "written" ELSE wire.state,
                             at |-> r.buffer.at]
            /\ call' = [op |-> "serialize", ret |-> r.ret]
            /\ UNCHANGED <<ctx, ckpt, rec, trail, era, script, besideCheckpoint>>

\* the stored checkpoint is altered before it is read back
AlterBuffer ==
    /\ wire.state = "written"
    /\ \E alt \in Alterations :
          wire' = [wire EXCEPT !.state = "altered", !.at = Altered(wire.at, alt)]
    /\ UNCHANGED <<ctx, ckpt, rec, call, trail, era, script, besideCheckpoint>>

\* the caller reads the stored checkpoint back, once
CheckpointDeserialize ==
    /\ wire.state \in {"written", "altered"}
    /\ \E a \in BufferArgs :
        LET cp == IF a.cpnull THEN NullCheckpoint ELSE ckpt
            r  == ct_checkpoint_deserialize(IF a.bnull THEN NullBuffer
                                            ELSE Buffer(wire.at), a.size, cp)
        IN  /\ ckpt' = IF a.cpnull THEN ckpt ELSE r.ckpt
            /\ wire' = [wire EXCEPT !.state = "read"]
            /\ call' = [op |-> "deserialize", ret |-> r.ret,
                        nullarg |-> a.cpnull \/ a.bnull, size |-> a.size,
                        altered |-> wire.state = "altered"]
            /\ UNCHANGED <<ctx, rec, trail, era, script, besideCheckpoint>>

(***************************************************************************)
(* One fault record shared by calls of every layer.  The caller owns one   *)
(* ct_fault_flags_t and hands its address to the DVM primitives, the       *)
(* accumulator calls, ct_stochastic_round, the reduction calls and the     *)
(* permutation calls, in any order; now and then it calls ct_clear_faults. *)
(* last is the layer called last, or "clear"; kinds holds the layers       *)
(* called on a record with a flag set since the last ct_clear_faults.      *)
(***************************************************************************)

FlagNames == {"overflow", "underflow", "div_zero", "domain", "grad_floor"}

SharedRecord(faults, last, kinds, trap) ==
    [faults |-> faults, last |-> last, kinds |-> kinds, trap |-> trap]

SharedIdle == SharedRecord(NoFaults, "none", {}, FALSE)

\* the record after a call of one layer that left the fault record as faults
SharedAfter(kind, faults, trap) ==
    shared' = SharedRecord(faults, kind,
                           IF \E k \in FlagNames : shared.faults[k] = 1
                           THEN shared.kinds \cup {kind} ELSE shared.kinds,
                           trap)

\* int32_t argument pairs and int64_t arguments that reach each saturation,
\* the division by zero, the quotient outside int32_t, and none of them
SharedPairs ==
    {<<INT32_MAX, ZInt(1)>>, <<INT32_MIN, ZInt(1)>>, <<INT32_MAX, INT32_MAX>>,
     <<INT32_MIN, INT32_MAX>>, <<ZInt(1), ZInt(0)>>, <<INT32_MIN, ZInt(-1)>>}

SharedInt64 == {INT64_MAX, INT64_MIN, ZInt(1)}

\* the outcomes of the DVM primitive op on a, b and the shift k
primitive(op, a, b, k, faults) ==
    CASE op = "add" -> {dvm_add(a, b, faults)}
      [] op = "sub" -> {dvm_sub(a, b, faults)}
      [] op = "mul" -> {dvm_mul(a, b, faults)}
      [] op = "div_int32" -> dvm_div_int32(a, b, faults)
      [] op = "div_q" -> dvm_div_q(a, b, k, faults)
      [] op = "round_shift_rne" -> {dvm_round_shift_rne(a, k, faults)}
      [] op = "clamp32" -> {dvm_clamp32(a, faults)}
      [] op = "abs64_sat" -> {dvm_abs64_sat(a, faults)}

SharedPrimitive ==
    /\ ~shared.trap
    /\ \/ \E op \in {"add", "sub", "mul", "div_int32"}, p \in SharedPairs :
          \E o \in primitive(op, p[1], p[2], 0, shared.faults) :
             SharedAfter("primitive", o.faults, o.trap)
       \/ \E p \in SharedPairs, k \in {FIXED_FRAC_BITS, CT_MAX_SHIFT + 1} :
          \E o \in primitive("div_q", p[1], p[2], k, shared.faults) :
             SharedAfter("primitive", o.faults, o.trap)
       \/ \E a \in SharedInt64, k \in {FIXED_FRAC_BITS, CT_MAX_SHIFT + 1} :
          \E o \in primitive("round_shift_rne", a, ZInt(0), k, shared.faults) :
             SharedAfter("primitive", o.faults, o.trap)
       \/ \E op \in {"clamp32", "abs64_sat"}, a \in SharedInt64 :
          \E o \in primitive(op, a, ZInt(0), 0, shared.faults) :
             SharedAfter("primitive", o.faults, o.trap)

SharedCompAdd ==
    /\ ~shared.trap
    /\ \E s \in SharedInt64, v \in SharedInt64 :
       \E o \in ct_comp_add(Accum(s, ZInt(0)), v, shared.faults) :
          SharedAfter("accumulator", o.faults, o.trap)

SharedCompMerge ==
    /\ ~shared.trap
    /\ \E s \in {INT64_MAX, INT64_MIN}, v \in {INT64_MAX, INT64_MIN} :
       \E e \in {ZInt(0), INT64_MAX} :
       \E o \in ct_comp_merge(Accum(s, e), Accum(v, e), shared.faults) :
          SharedAfter("accumulator", o.faults, o.trap)

SharedCompFinalize ==
    /\ ~shared.trap
    /\ \E s \in SharedInt64, e \in SharedInt64 :
          SharedAfter("accumulator",
                      ct_comp_finalize(Accum(s, e), shared.faults).faults, FALSE)

SharedStochasticRound ==
    /\ ~shared.trap
    /\ \E prng \in {NoPrng, ct_prng_init(ZeroPrng, <<42>>, <<>>)} :
       \E x \in {ZInt(32768), INT64_MAX} :
       \E shift \in {0, FIXED_FRAC_BITS, CT_MAX_SHIFT + 1} :
       \E o \in ct_stochastic_round(x, shift, prng, shared.faults) :
          SharedAfter("prng", o.faults, FALSE)

\* the batch sizes the caller builds a tree for
SharedLeaves == {0, 2, 3, SpillLeaves}

SharedReductionInit ==
    /\ ~shared.trap
    /\ \E n \in SharedLeaves :
          SharedAfter("reduction",
                      ct_reduction_init(ZeroTree, NodeBuffer(n, FALSE), n, <<>>,
                                        shared.faults).faults, FALSE)

\* the trees of the caller, each built once
SharedTrees ==
    [n \in SharedLeaves \ {0} |->
        ct_reduction_init(ZeroTree, NodeBuffer(n, FALSE), n, <<>>, NoFaults).tree]

SharedReduce ==
    /\ ~shared.trap
    /\ \E n \in SharedLeaves \ {0, SpillLeaves} :
       \E v \in {ZInt(1), INT64_MAX, INT64_MIN} :
       \E o \in ct_reduction_reduce_64(SharedTrees[n],
                                       Values([k \in 1..n |-> v]),
                                       shared.faults) :
          SharedAfter("reduction", o.faults, o.trap)

SharedReduce32 ==
    /\ ~shared.trap
    /\ \E n \in SharedLeaves \ {0}, v \in {ZInt(1)} :
       \E o \in ct_reduction_reduce_32(SharedTrees[n],
                                       Values([k \in 1..n |-> v]),
                                       shared.faults) :
          SharedAfter("reduction", o.faults, o.trap)

\* the permutations of the caller: one not initialised, one of MaxBatch indices
SharedPerms ==
    {ZeroPerm, ct_permutation_init(ZeroPerm, MagOfNat(42), 0, MaxBatch).perm}

SharedPermutationApply ==
    /\ ~shared.trap
    /\ \E p \in SharedPerms, i \in {0, MaxBatch, MaxBatch + 1} :
          SharedAfter("permutation",
                      ct_permutation_apply(p, i, shared.faults).faults, FALSE)

SharedPermutationInverse ==
    /\ ~shared.trap
    /\ \E p \in SharedPerms, i \in {0, MaxBatch, MaxBatch + 1} :
          SharedAfter("permutation",
                      ct_permutation_inverse(p, i, shared.faults).faults, FALSE)

ClearFaults ==
    /\ ~shared.trap
    /\ shared' = SharedRecord(ct_clear_faults(shared.faults), "clear", {}, FALSE)

NoCall == [op |-> "none", ret |-> CT_OK]

Init ==
    /\ ctx = ZeroCtx
    /\ ckpt = ZeroCheckpoint
    /\ rec = ZeroRecord
    /\ call = NoCall
    /\ trail = <<>>
    /\ era = "none"
    /\ wire = NoWire
    /\ script = NoScript
    /\ shared = SharedIdle
    /\ ar = ArIdle
    /\ PrngIdle
    /\ SumIdle
    /\ PermIdle

\* a caller that steps, checkpoints and restores the chain and asks for no
\* step records
Next ==
    \/ MerkleInit
    \/ MerkleStep
    \/ MerkleInvalidate
    \/ CheckpointCreate
    \/ CheckpointVerify
    \/ MerkleRestore
    \/ VerifyStep

Spec == Init /\ [][Next]_vars

\* a caller that keeps the step records and replays them through the verifier
NextAudit ==
    \/ MerkleInit
    \/ MerkleStepRecorded
    \/ MerkleInvalidate
    \/ VerifyStep

SpecAudit == Init /\ [][NextAudit]_vars

\* a caller that checkpoints the chain, stores the checkpoint in a buffer, and
\* restores the chain from what it reads back; it leaves the chain alone once
\* the buffer holds a checkpoint
NextCheckpoint ==
    \/ wire.state = "blank" /\ MerkleInit
    \/ wire.state = "blank" /\ MerkleStep
    \/ wire.state = "blank" /\ MerkleInvalidate
    \/ wire.state = "blank" /\ CheckpointCreate
    \/ CheckpointSerialize
    \/ AlterBuffer
    \/ CheckpointDeserialize
    \/ wire.state = "read" /\ MerkleRestore

SpecCheckpoint == Init /\ [][NextCheckpoint]_vars

\* a caller that hands one fault record to calls of every layer
NextFaults ==
    \/ SharedPrimitive /\ UNCHANGED besideShared
    \/ SharedCompAdd /\ UNCHANGED besideShared
    \/ SharedCompMerge /\ UNCHANGED besideShared
    \/ SharedCompFinalize /\ UNCHANGED besideShared
    \/ SharedStochasticRound /\ UNCHANGED besideShared
    \/ SharedReductionInit /\ UNCHANGED besideShared
    \/ SharedReduce /\ UNCHANGED besideShared
    \/ SharedReduce32 /\ UNCHANGED besideShared
    \/ SharedPermutationApply /\ UNCHANGED besideShared
    \/ SharedPermutationInverse /\ UNCHANGED besideShared
    \/ ClearFaults /\ UNCHANGED besideShared

SpecFaults == Init /\ [][NextFaults]_vars

InitArith ==
    /\ ctx = ZeroCtx
    /\ ckpt = ZeroCheckpoint
    /\ rec = ZeroRecord
    /\ call = NoCall
    /\ trail = <<>>
    /\ era = "none"
    /\ wire = NoWire
    /\ script = NoScript
    /\ shared = SharedIdle
    /\ ArInit
    /\ PrngIdle
    /\ SumIdle
    /\ PermIdle

NextArith ==
    \/ DvmAdd /\ UNCHANGED besideArith
    \/ DvmSub /\ UNCHANGED besideArith
    \/ DvmMul /\ UNCHANGED besideArith
    \/ DvmDivInt32 /\ UNCHANGED besideArith
    \/ DvmDivQ /\ UNCHANGED besideArith
    \/ DvmRoundShiftRne /\ UNCHANGED besideArith

SpecArith == InitArith /\ [][NextArith]_vars

MerkleIdle ==
    /\ ctx = ZeroCtx
    /\ ckpt = ZeroCheckpoint
    /\ rec = ZeroRecord
    /\ call = NoCall
    /\ trail = <<>>
    /\ era = "none"
    /\ wire = NoWire
    /\ script = NoScript
    /\ shared = SharedIdle

\* a caller with two initialised PRNG objects
InitPrng ==
    /\ MerkleIdle
    /\ ar = ArIdle
    /\ \E k1 \in PrngKeySamples, k2 \in PrngKeySamples :
          rng = [i \in 1..2 |->
                   ct_prng_init(ZeroPrng, IF i = 1 THEN k1.seed ELSE k2.seed,
                                IF i = 1 THEN k1.op_id ELSE k2.op_id)]
    /\ draws = [i \in 1..2 |-> <<>>]
    /\ rcall = NoPrngCall
    /\ SumIdle
    /\ PermIdle

NextPrng ==
    \/ PrngInit /\ UNCHANGED besidePrng
    \/ PrngNext /\ UNCHANGED besidePrng
    \/ PrngPeek /\ UNCHANGED besidePrng
    \/ PrngMakeOpId /\ UNCHANGED besidePrng
    \/ StochasticRound /\ UNCHANGED besidePrng

SpecPrng == InitPrng /\ [][NextPrng]_vars

\* one call of ct_stochastic_round on a PRNG object somewhere in its stream
InitRound ==
    /\ MerkleIdle
    /\ ar = ArIdle
    /\ RoundInit
    /\ SumIdle
    /\ PermIdle

NextRound == StochasticRoundOnce /\ UNCHANGED besidePrng

SpecRound == InitRound /\ [][NextRound]_vars

(***************************************************************************)
(* Properties of the Merkle chain.  call describes the call that led to    *)
(* the state: call.pre is the chain state it found, call.nullarg whether a *)
(* required pointer (context, weights, batch indices) was null,            *)
(* call.faulty whether it was handed a fault record with overflow,         *)
(* underflow, div_zero or domain set, call.out whether it was handed a    *)
(* record to fill.                                                         *)
(***************************************************************************)

\* C1: for any chain state and any arguments, a step that returns an error
\* leaves the step counter and current_hash as they were, and a step that
\* returns CT_OK adds one to the counter and replaces current_hash with the
\* hash of (previous hash, H(weights), H(batch), previous counter).
C1_StepCommitsIffOk ==
    [][call'.op = "step" =>
          IF call'.ret = CT_OK
          THEN /\ ctx'.step = ctx.step + 1
               /\ ctx'.current_hash =
                     ct_sha256(ctx.current_hash
                               \o ct_tensor_hash(call'.w).hash
                               \o compute_batch_hash(call'.b.indices)
                               \o write_u64_le(ctx.step))
               /\ ctx'.current_hash # ctx.current_hash
          ELSE /\ ctx'.step = ctx.step
               /\ ctx'.current_hash = ctx.current_hash]_vars

\* a second step has been committed
C1_SecondStepCommitted ==
    call.op = "step" /\ call.ret = CT_OK /\ ctx.step = 2

\* C2 as stated: once the chain has been faulted, and as long as no restore
\* has succeeded since, no step returns CT_OK - whatever calls of init, step,
\* invalidate, checkpoint create and step verification came in between.
C2_NoOkStepAfterFault ==
    ~(call.op = "step" /\ call.ret = CT_OK /\ era # "none")

\* C2, amended: once the chain has been faulted, and as long as neither a
\* restore nor an init has succeeded since, no step returns CT_OK.
C2_NoOkStepWhileFaulted ==
    ~(call.op = "step" /\ call.ret = CT_OK /\ era = "faulted")

\* a step on a chain that an earlier call had faulted has been refused
C2_StepRefusedAfterFault ==
    /\ call.op = "step" /\ call.pre = "faulted" /\ era = "faulted"
    /\ ~call.nullarg /\ ~call.faulty /\ call.ret = CT_ERR_FAULT

C4_FaultedStepReturnsFault ==
    call.op = "step" /\ call.pre = "faulted" =>
        call.ret = CT_ERR_FAULT /\ ChainState(ctx) = "faulted"

\* C4, amended: on a faulted chain a step leaves the chain faulted; it returns
\* CT_ERR_FAULT when context, weights and batch indices are non-null and
\* CT_ERR_NULL when one of them is null.
C4_FaultedStepStaysFaulted ==
    call.op = "step" /\ call.pre = "faulted" =>
        /\ ChainState(ctx) = "faulted"
        /\ call.ret = IF call.nullarg THEN CT_ERR_NULL ELSE CT_ERR_FAULT

\* a faulted chain has refused a well-formed step with a clean fault record
C4_FaultedStepRefused ==
    /\ call.op = "step" /\ call.pre = "faulted" /\ ~call.nullarg /\ ~call.faulty
    /\ call.ret = CT_ERR_FAULT /\ ChainState(ctx) = "faulted" /\ ctx.step = 1

\* the tensors and index arrays a verifier can hash
WellFormedWeights == {w \in VerifyTensorSamples : ct_tensor_hash(w).err = CT_OK}

WellFormedBatches == {b \in VerifyBatchSamples : ~b.null}

\* C5: for the record of a successful step, ct_merkle_verify_step returns
\* CT_ERR_HASH whenever the weights, the batch indices, the record's step
\* number or the prior hash handed to it (the genesis of another seed
\* included) differ from those of the step, in any combination; with none of
\* them changed it returns CT_OK.
C5_VerifierRejectsTampering ==
    trail # <<>> =>
        LET e == trail[Len(trail)]
        IN  \A st \in {e.rec, [e.rec EXCEPT !.step = e.rec.step + 1]},
               pv \in PrevSamples \ {NullHash},
               w \in WellFormedWeights, b \in WellFormedBatches :
                ct_merkle_verify_step(st, pv, w, b) =
                    IF Tampered(e, st, pv, w, b) = {} THEN CT_OK ELSE CT_ERR_HASH

\* the verifier has rejected the record of the second step for its weights
C5_TamperedWeightsRejected ==
    /\ call.op = "verify_step" /\ call.ret = CT_ERR_HASH
    /\ call.tampered = {"weights"}
    /\ rec.step = 1 /\ rec.step_hash = ctx.current_hash

\* C6: the record a successful step writes has prev_hash = current_hash before
\* the step, step = the counter before the step and step_hash = current_hash
\* after it; so of two records of consecutive successful steps the second's
\* prev_hash is the first's step_hash and its step number is one more.
C6_RecordsChain ==
    [][call'.op = "step" /\ call'.ret = CT_OK /\ call'.out =>
          /\ rec'.prev_hash = ctx.current_hash
          /\ rec'.step = ctx.step
          /\ rec'.step_hash = ctx'.current_hash
          /\ trail' # <<>> /\ trail'[Len(trail')].rec = rec'
          /\ Len(trail') = 2 =>
                /\ trail'[2].rec.prev_hash = trail'[1].rec.step_hash
                /\ trail'[2].rec.step = trail'[1].rec.step + 1]_vars

\* two consecutive successful steps have each written a record
C6_TwoRecords ==
    /\ call.op = "step" /\ call.ret = CT_OK /\ call.out
    /\ Len(trail) = 2 /\ trail[2].rec = rec /\ rec.step = 1

\* the contexts a checkpoint is restored into
RestoreTargets == {ctx, ZeroCtx}

\* C7 as stated: for any arguments ct_checkpoint_create accepts, restoring
\* the checkpoint it makes of the context gives current_hash, step and epoch
\* equal to the context's.
C7_RoundTripOfContext ==
    \A a \in CreateArgs, now \in TimeSamples, target \in RestoreTargets :
        LET made == ct_checkpoint_create(a.cnull, ctx, a.prng, a.epoch, a.w, a.ch,
                                         IF a.cpnull THEN NullCheckpoint ELSE ckpt, now)
            back == ct_merkle_restore(FALSE, target, made.ckpt)
        IN  made.ret = CT_OK =>
                /\ back.ret = CT_OK
                /\ back.ctx.current_hash = ctx.current_hash
                /\ back.ctx.step = ctx.step
                /\ back.ctx.epoch = ctx.epoch

\* C7, amended: for any arguments ct_checkpoint_create accepts, restoring the
\* checkpoint it makes of the context gives current_hash and step equal to the
\* context's, and epoch equal to the epoch argument of ct_checkpoint_create.
C7_RoundTripOfArguments ==
    \A a \in CreateArgs, now \in TimeSamples, target \in RestoreTargets :
        LET made == ct_checkpoint_create(a.cnull, ctx, a.prng, a.epoch, a.w, a.ch,
                                         IF a.cpnull THEN NullCheckpoint ELSE ckpt, now)
            back == ct_merkle_restore(FALSE, target, made.ckpt)
        IN  made.ret = CT_OK =>
                /\ back.ret = CT_OK
                /\ back.ctx.current_hash = ctx.current_hash
                /\ back.ctx.step = ctx.step
                /\ back.ctx.epoch = a.epoch

\* a chain has been restored from a checkpoint made one step past genesis at
\* epoch 1
C7_Restored ==
    /\ call.op = "restore" /\ call.ret = CT_OK
    /\ ckpt.version = MagOfNat(CT_CHECKPOINT_VERSION)
    /\ ctx.current_hash = ckpt.merkle_hash /\ ctx.step = 1 /\ ctx.epoch = 1

(***************************************************************************)
(* Properties of the DVM primitives, under SpecArith.  A call is judged    *)
(* once it has returned (ar.pc = "done") and when it was handed a fault    *)
(* record, since the flags are the record's fields.                        *)
(***************************************************************************)

\* x / 2^k rounded to the nearest integer, ties to the even one, on the
\* unbounded integers: the magnitude is rounded and the sign put back
RoundHalfEven(x, k) ==
    LET qr   == MagDivMod(x.mag, MagPow2(k))
        cmp  == MagCmp(qr.r, MagPow2(k - 1))
        odd  == ZIsOdd(Z(FALSE, qr.q))
        up   == cmp > 0 \/ (cmp = 0 /\ odd)
    IN  Z(x.neg, IF up THEN MagAdd(qr.q, MagOfNat(1)) ELSE qr.q)

\* what a call must return for the unbounded answer v: v itself when it is an
\* int32_t, else the nearer limit with its flag raised
Saturated(v, out, fin) ==
    /\ ~out.trap
    /\ IF ZLt(INT32_MAX, v)
       THEN out.val = INT32_MAX /\ out.faults.overflow = 1
       ELSE IF ZLt(v, INT32_MIN)
       THEN out.val = INT32_MIN /\ out.faults.underflow = 1
       ELSE out.val = v /\ out.faults = fin

ArReturned(op) == ar.pc = "done" /\ ar.op = op /\ ~ar.fin.null

\* C8: dvm_add, dvm_sub, dvm_mul and dvm_div_int32 on any two int32_t return
\* the exact answer (the product shifted by 16 with ties to even, the quotient
\* truncated toward zero for b # 0) when it is an int32_t, and otherwise
\* INT32_MAX with overflow or INT32_MIN with underflow raised; never a wrapped
\* or undefined value.
C8_ExactOrSaturated ==
    /\ ArReturned("add") => Saturated(ZAdd(ar.a, ar.b), ar.out, ar.fin)
    /\ ArReturned("sub") => Saturated(ZSub(ar.a, ar.b), ar.out, ar.fin)
    /\ ArReturned("mul") =>
          Saturated(RoundHalfEven(ZMul(ar.a, ar.b), FIXED_FRAC_BITS), ar.out, ar.fin)
    /\ ArReturned("div_int32") /\ ar.b # ZInt(0) =>
          Saturated(ZQuot(ar.a, ar.b), ar.out, ar.fin)

\* dvm_div_int32(INT32_MIN, -1) has returned INT32_MIN with no flag raised
C8_DivMinByMinusOne ==
    /\ ArReturned("div_int32")
    /\ ar.a = INT32_MIN /\ ar.b = ZInt(-1)
    /\ ~ar.out.trap /\ ar.out.val = INT32_MIN /\ ar.out.faults = NoFaults

\* C9: dvm_div_q(a, b, frac_bits) with b # 0 and frac_bits in 0..62 returns
\* (a * 2^frac_bits) / b truncated toward zero when that is an int32_t and
\* otherwise the nearer limit with its flag; b = 0 returns 0 with div_zero;
\* frac_bits above 62 returns 0 with domain.
C9_DivQ ==
    ArReturned("div_q") =>
        IF ar.b = ZInt(0)
        THEN ar.out = Ret(ZInt(0), SetFault(ar.fin, "div_zero"))
        ELSE IF ar.k > CT_MAX_SHIFT
        THEN ar.out = Ret(ZInt(0), SetFault(ar.fin, "domain"))
        ELSE Saturated(ZQuot(ZMul(ar.a, ZPow2(ar.k)), ar.b), ar.out, ar.fin)

\* dvm_div_q(65536, 1, 48) has returned 0 with no flag raised
C9_ShiftWrapsToZero ==
    /\ ArReturned("div_q")
    /\ ar.a = ZInt(65536) /\ ar.b = ZInt(1) /\ ar.k = 48
    /\ ~ar.out.trap /\ ar.out.val = ZInt(0) /\ ar.out.faults = NoFaults

\* C10: dvm_round_shift_rne(x, k) with k in 1..62 and any int64_t x returns
\* x / 2^k rounded to the nearest integer, ties to the even one, negative x
\* included, clamped to the int32_t range.
C10_RoundShiftRne ==
    ArReturned("round_shift_rne") /\ ar.k \in 1..CT_MAX_SHIFT =>
        Saturated(RoundHalfEven(ar.a, ar.k), ar.out, ar.fin)

\* -1.5 in Q16.16 shifted by 16 has returned -2: a tie below zero went to even
C10_NegativeTie ==
    /\ ArReturned("round_shift_rne")
    /\ ar.a = ZInt(-98304) /\ ar.k = 16
    /\ ar.out.val = ZInt(-2) /\ ar.out.faults = NoFaults

\* a caller that sums values through one accumulator
InitSum ==
    /\ MerkleIdle
    /\ ar = ArIdle
    /\ PrngIdle
    /\ PermIdle
    /\ cs \in {[CsIdle EXCEPT !.faults = f] : f \in FaultSamples}
    /\ TreeIdle

NextSum ==
    \/ CompInit /\ UNCHANGED <<besideSum, rtree, rd>>
    \/ CompAdd /\ UNCHANGED <<besideSum, rtree, rd>>
    \/ CompFinalize /\ UNCHANGED <<besideSum, rtree, rd>>

SpecSum == InitSum /\ [][NextSum]_vars

\* a caller that builds the tree for a batch size and asks for its depth
InitTree ==
    /\ MerkleIdle
    /\ ar = ArIdle
    /\ PrngIdle
    /\ PermIdle
    /\ cs = CsIdle
    /\ rtree = ZeroTree
    /\ \/ \E n \in 0..MaxLeaves : rd = RdNew(n, NoValues, FALSE)
       \/ rd = RdNew(CT_MAX_LEAVES + 1, NoValues, FALSE)
       \/ rd = RdNew(1, NoValues, TRUE)

NextTree ==
    \/ ReductionInit /\ UNCHANGED <<besideSum, cs>>
    \/ ReductionDepth /\ UNCHANGED <<besideSum, cs>>

SpecTree == InitTree /\ [][NextTree]_vars

\* the arrays of n values
Arrays(n) == [1..n -> ReduceSamples]

\* a caller that builds the tree for its values and reduces them
InitReduce ==
    /\ MerkleIdle
    /\ ar = ArIdle
    /\ PrngIdle
    /\ PermIdle
    /\ cs = CsIdle
    /\ rtree = ZeroTree
    /\ \/ \E n \in 1..MaxValues : \E v \in Arrays(n) :
             rd = RdNew(n, Values(v), FALSE)
       \/ \E v \in ReduceSamples :
             rd = RdNew(SpillLeaves, Values([k \in 1..SpillLeaves |-> v]), FALSE)
       \/ \E n \in 1..MaxValues : \E v \in {INT32_MAX, INT32_MIN} :
             rd = RdNew(n, Values([k \in 1..n |-> v]), FALSE)

NextReduce ==
    \/ ReductionInit /\ UNCHANGED <<besideSum, cs>>
    \/ Reduce64 /\ UNCHANGED <<besideSum, cs>>
    \/ Reduce32 /\ UNCHANGED <<besideSum, cs>>
    \/ ReduceTraced /\ UNCHANGED <<besideSum, cs>>
    \/ ReduceLoad /\ UNCHANGED <<besideSum, cs>>
    \/ MergeNode /\ UNCHANGED <<besideSum, cs>>
    \/ ReduceFinish /\ UNCHANGED <<besideSum, cs>>

SpecReduce == InitReduce /\ [][NextReduce]_vars

\* a caller that initialises a permutation and maps indices through it
InitPerm ==
    /\ MerkleIdle
    /\ ar = ArIdle
    /\ PrngIdle
    /\ SumIdle
    /\ pm = ZeroPerm
    /\ bctx = ZeroBatchCtx
    /\ \E a \in PermInitSamples : pcall = PermNew(a)

NextPerm ==
    \/ PermutationInit /\ UNCHANGED besidePerm
    \/ PermutationSetEpoch /\ UNCHANGED besidePerm
    \/ PermutationApply /\ UNCHANGED besidePerm
    \/ PermutationInverse /\ UNCHANGED besidePerm

SpecPerm == InitPerm /\ [][NextPerm]_vars

\* a caller that initialises a batch context and asks for batch sizes
InitBatch ==
    /\ MerkleIdle
    /\ ar = ArIdle
    /\ PrngIdle
    /\ SumIdle
    /\ pm = ZeroPerm
    /\ bctx = ZeroBatchCtx
    /\ \E a \in BatchInitSamples : pcall = PermNew(a)

NextBatch ==
    \/ BatchInit /\ UNCHANGED besidePerm
    \/ BatchGetSize /\ UNCHANGED besidePerm
    \/ BatchGetIndices /\ UNCHANGED besidePerm

SpecBatch == InitBatch /\ [][NextBatch]_vars

(***************************************************************************)
(* Claims about the PRNG (SpecPrng, SpecRound)                             *)
(***************************************************************************)

\* the object behind pointer who before the step, its cursor moved up by one
Advanced(who) == [rng EXCEPT ![who].step = UAdd64(@, <<1>>)]

\* C11: the PRNG cursor is advanced exactly when next or stochastic_round is
\* called: every call of either on an object moves that object's step up by
\* exactly one and leaves the other object alone, and a call of peek or of
\* make_op_id leaves every step as it was.
C11_CursorAdvancesOnEveryCall ==
    [][/\ (rcall'.op \in {"next", "stochastic_round"} /\ rcall'.who # 0)
            => rng' = Advanced(rcall'.who)
       /\ rcall'.op \in {"peek", "make_op_id"} => rng' = rng]_vars

\* a call of stochastic_round with shift 0 has returned and the cursor of its
\* PRNG object is where it was
C11_RoundedWithoutDrawing ==
    /\ rcall.op = "stochastic_round" /\ rcall.who # 0 /\ rcall.shift = 0
    /\ rng[rcall.who].step = rcall.at

\* C12: peek(state, s) leaves the state as it was and returns the value next
\* returns with the cursor at s; every value next has returned on an object
\* is the one peek gives for the step it was drawn at; and two objects
\* initialised with the same (seed, op_id) have drawn the same sequence as
\* far as both have drawn, whatever peeks came in between.
C12_PeekAndReplay ==
    /\ [][rcall'.op = "peek" =>
            /\ rng' = rng
            /\ rcall'.who # 0 =>
                  rcall'.val =
                    ct_prng_next([rng[rcall'.who] EXCEPT !.step = rcall'.at]).val]_vars
    /\ [](\A i \in 1..2 : \A j \in 1..Len(draws[i]) :
             draws[i][j] = ct_prng_peek(rng[i], MagOfNat(j - 1)))
    /\ []((rng[1].seed = rng[2].seed /\ rng[1].op_id = rng[2].op_id) =>
             \A j \in 1..Len(draws[1]) :
                j <= Len(draws[2]) => draws[1][j] = draws[2][j])

\* both objects run on one (seed, op_id), both have drawn, one of them all it
\* may, and the last call was a peek
C12_TwoStreamsAndAPeek ==
    /\ rng[1].seed = rng[2].seed /\ rng[1].op_id = rng[2].op_id
    /\ Len(draws[1]) = MaxDraws /\ Len(draws[2]) >= 1
    /\ rcall.op = "peek" /\ rcall.who # 0

Clamp32(v) ==
    IF ZLt(INT32_MAX, v) THEN INT32_MAX
    ELSE IF ZLt(v, INT32_MIN) THEN INT32_MIN
    ELSE v

\* a call of stochastic_round with a PRNG object and a shift in [1, 62] has
\* returned
RoundReturned ==
    /\ rcall.op = "stochastic_round" /\ rcall.pc = "done"
    /\ rcall.who # 0 /\ rcall.shift \in 1..CT_MAX_SHIFT

\* the low shift bits of the rounded value
LowBits == MagLow(ToU64(rcall.x), rcall.shift)

RECURSIVE PrefixSum(_, _)
\* the exact sum of the first n values of vs
PrefixSum(vs, n) == IF n = 0 THEN ZInt(0) ELSE ZAdd(PrefixSum(vs, n - 1), vs[n])

\* no partial sum of vs leaves int64_t: no addition of the running sum saturates
NoSaturation(vs) == \A n \in 1..Len(vs) : InInt64(PrefixSum(vs, n))

\* C16: for values added one by one to a freshly initialised accumulator such
\* that no addition saturates, every addition returns and finalize returns
\* exactly their sum.
C16_FinalizeIsExactSum ==
    NoSaturation(cs.addends) =>
        /\ cs.pc # "trapped"
        /\ cs.pc = "finalized" => cs.out = PrefixSum(cs.addends, Len(cs.addends))

\* INT64_MIN was added to a running sum of INT64_MAX: nothing saturates, and
\* the error term (sum - t) + value overflowed
C16_ErrorTermOverflows ==
    /\ cs.pc = "trapped" /\ NoSaturation(cs.addends)
    /\ cs.accum.sum = INT64_MAX /\ cs.addends[Len(cs.addends)] = INT64_MIN

\* the outcomes of the sequential compensated sum over the caller's values
SequentialSum == ct_comp_sum_array(rd.values, NoFaults)

\* C14: for n in [1, 65536] and an array of n values, reducing the array
\* through the tree built for n leaves returns exactly the value the
\* sequential compensated array sum returns for it.
C14_TreeEqualsSequential ==
    rd.pc = "reduced" =>
        \A s \in SequentialSum : ~s.trap => s.val = rd.out.val

\* 1, INT64_MAX, -1, INT64_MIN, INT64_MAX were reduced: no operation
\* overflows in either sum, both saturate on the way, the sequential one
\* returns INT64_MAX - 1 and the tree INT64_MAX - 2
C14_SaturatedInTheTree ==
    /\ rd.pc = "reduced"
    /\ rd.values.at = <<ZInt(1), INT64_MAX, ZInt(-1), INT64_MIN, INT64_MAX>>
    /\ rd.out.val = ZSub(INT64_MAX, ZInt(2))
    /\ \A s \in SequentialSum : ~s.trap /\ s.val = ZSub(INT64_MAX, ZInt(1))

\* the outcomes of the merge loop of ct_reduction_reduce_64 on the caller's
\* values, which takes the internal nodes in ascending index order
AscendingOrder ==
    merge_from({RedOut(load_leaves(rtree, rd.values.at), NoFaults)}, rtree,
               rtree.num_leaves)

\* C15: for a given tree and input, merging the internal nodes in any order in
\* which a node is merged only after both of its children are complete gives
\* the same accumulators, the root's among them, and the same final result as
\* merging them in ascending index order; a merge overflows in such an order
\* only if one overflows in ascending order.
C15_AnyOrderOfMerges ==
    /\ rd.pc = "finished" =>
          /\ \E a \in AscendingOrder : ~a.trap
          /\ \A a \in AscendingOrder :
                ~a.trap => /\ a.accum = rd.accum
                           /\ finalize_root({a}, rtree) = {rd.out}
    /\ (rd.pc = "trapped" /\ rd.merged # {}) => \E a \in AscendingOrder : a.trap

\* five values were reduced, some node was merged before a node of lower
\* index, and the root was finalized
C15_MergedOutOfOrder ==
    /\ rd.pc = "finished" /\ ~rd.ascending
    /\ rtree.num_leaves = MaxValues

(***************************************************************************)
(* Claims about the shape of the tree (SpecTree)                           *)
(***************************************************************************)

RECURSIVE LongestPath(_, _)
\* the number of child links on the longest path from node i down to a leaf
LongestPath(t, i) ==
    IF Children(t, i) = {} THEN 0
    ELSE LET below == {LongestPath(t, c) : c \in Children(t, i)}
         IN  1 + CHOOSE h \in below : \A g \in below : g <= h

RECURSIVE Pow2(_)
Pow2(d) == IF d = 0 THEN 1 ELSE 2 * Pow2(d - 1)

\* d is the ceiling of the base-2 logarithm of n
IsCeilLog2(d, n) == Pow2(d) >= n /\ (d > 0 => Pow2(d - 1) < n)

\* C19: for n in [1, 65536] the tree built by init has depth exactly
\* ceil(log2 n): the depth stored and reported is the ceiling of log2 n and
\* is the length of the longest path from the root to a leaf along the child
\* links.
C19_DepthIsLongestPath ==
    rd.pc \in {"built", "asked"} =>
        /\ rd.n \in 1..CT_MAX_LEAVES /\ rtree.num_leaves = rd.n
        /\ IsCeilLog2(ct_reduction_depth(rtree), rd.n)
        /\ ct_reduction_depth(rtree) = LongestPath(rtree, rtree.root_index)
        /\ rd.pc = "asked" => rd.depth = ct_reduction_depth(rtree)

\* the depth of a tree of more than 64 leaves was asked for: it is 7, and
\* the number of leaves is not a power of two
C19_DepthOfSeventyLeaves ==
    /\ rd.pc = "asked" /\ rd.n > 64 /\ rd.n < 128
    /\ rd.depth = 7

(***************************************************************************)
(* Claims about the permutation and the batches (SpecPerm, SpecBatch)      *)
(***************************************************************************)

\* the indices of the caller's dataset
Indices == 0..(pm.dataset_size - 1)

\* what apply and inverse return on the caller's permutation
Applied(i) == ct_permutation_apply(pm, i, NoFaults).val

Inverted(j) == ct_permutation_inverse(pm, j, NoFaults).val

\* C17: for every seed, epoch and dataset size N that init accepts, apply on
\* [0, N) is a bijection onto [0, N): every output is below N and no two
\* indices map to the same output; and a call of apply returns that output.
C17_ApplyIsBijection ==
    pm.initialized =>
        /\ \A i \in Indices : Applied(i) \in Indices
        /\ Cardinality({Applied(i) : i \in Indices}) = pm.dataset_size
        /\ (pcall.op = "apply" /\ pcall.index \in Indices) =>
              pcall.val = Applied(pcall.index)

\* apply was called on a dataset that does not fill the Feistel range, the
\* first Feistel application left the dataset, and apply returned an index
\* of the dataset
C17_WalkedBackIntoRange ==
    /\ pm.initialized /\ pm.dataset_size > 16
    /\ pcall.op = "apply" /\ pcall.index \in Indices
    /\ feistel_forward(pm, pcall.index) >= pm.dataset_size
    /\ pcall.val \in Indices

\* C18: for an initialised permutation and every i, j in [0, N),
\* inverse(apply(i)) = i and apply(inverse(j)) = j, cycle-walking of more than
\* one Feistel application included; and what a call of inverse returns is
\* mapped back by apply.
C18_InverseRoundTrip ==
    pm.initialized =>
        /\ \A i \in Indices : Inverted(Applied(i)) = i
        /\ \A j \in Indices : Applied(Inverted(j)) = j
        /\ (pcall.op = "inverse" /\ pcall.index \in Indices) =>
              /\ pcall.val \in Indices
              /\ Applied(pcall.val) = pcall.index

\* inverse was called on an index whose first inverse Feistel application
\* left the dataset, and so did the first forward application on the index
\* it returned
C18_WalkedBothWays ==
    /\ pm.initialized
    /\ pcall.op = "inverse" /\ pcall.index \in Indices
    /\ feistel_inverse(pm, pcall.index) >= pm.dataset_size
    /\ feistel_forward(pm, pcall.val) >= pm.dataset_size

\* C20: for a batch context of dataset size N and batch size B and every
\* global step, the batch-size query returns B, except on the last step of
\* an epoch (step mod ceil(N/B) = ceil(N/B) - 1), where it returns
\* N - step_in_epoch * B.
C20_BatchSizeOfStep ==
    (pcall.op = "get_size" /\ bctx.perm.initialized) =>
        LET N == MagOfNat(bctx.perm.dataset_size)
            B == bctx.batch_size
            S == MagDivMod(MagAdd(N, MagSub(B, <<1>>)), B).q
            t == MagDivMod(pcall.step, S).r
        IN  /\ ~pcall.trap
            /\ pcall.size = IF t = MagSub(S, <<1>>) THEN MagSub(N, MagMul(t, B))
                            ELSE B

\* the context was initialised with the largest batch size, N + B - 1 was
\* taken modulo 2^32, steps_per_epoch is zero, and the query divided by it
C20_DividedByZeroSteps ==
    /\ pcall.op = "get_size" /\ pcall.trap
    /\ bctx.perm.initialized /\ bctx.batch_size = UINT32_MAX
    /\ bctx.steps_per_epoch = <<>>


(***************************************************************************)
(* The node array after ct_reduction_init.                                 *)
(***************************************************************************)

\* the internal nodes of t that name node k as a child
ParentsOf(t, k) ==
    {p \in t.num_leaves .. t.num_nodes - 1 :
        t.nodes[p + 1].left_child = k \/ t.nodes[p + 1].right_child = k}

\* C30: after ct_reduction_init with n >= 2 leaves, internal node n+i has the
\* children 2i and 2i+1, both below its own index and neither clamped to
\* CT_LEAF_MARKER; every node but the root is the child of exactly one
\* internal node, which its parent field names; and only the root, at index
\* 2n-2, has parent CT_ROOT_MARKER.
C30_WellFormedTree ==
    rd.pc \in {"built", "asked"} /\ rtree.num_leaves >= 2 =>
        LET n == rtree.num_leaves
        IN  /\ rtree.root_index = 2 * n - 2
            /\ Len(rtree.nodes) = 2 * n - 1
            /\ \A i \in 0..n - 2 :
                  LET node == rtree.nodes[n + i + 1]
                  IN  /\ node.left_child = 2 * i
                      /\ node.right_child = 2 * i + 1
                      /\ node.left_child # CT_LEAF_MARKER
                      /\ node.right_child # CT_LEAF_MARKER
                      /\ node.left_child < n + i
                      /\ node.right_child < n + i
            /\ \A k \in 0..2 * n - 3 :
                  /\ Cardinality(ParentsOf(rtree, k)) = 1
                  /\ rtree.nodes[k + 1].parent \in ParentsOf(rtree, k)
            /\ \A k \in 0..2 * n - 2 :
                  rtree.nodes[k + 1].parent = CT_ROOT_MARKER <=> k = 2 * n - 2

\* a tree of MaxLeaves leaves is built: both children of its root are
\* internal nodes, whose parent fields were written after they were made
C30_RootOverInternalNodes ==
    /\ rd.pc = "built"
    /\ rtree.num_leaves = MaxLeaves
    /\ rtree.nodes[rtree.root_index + 1].left_child >= rtree.num_leaves
    /\ rtree.nodes[rtree.nodes[rtree.root_index + 1].left_child + 1].parent
          = rtree.root_index


(***************************************************************************)
(* The cycle walk of apply and inverse.                                    *)
(***************************************************************************)

RECURSIVE Walk(_, _, _, _)
\* the indices a cycle walk from i passes: i after one Feistel application,
\* after two, ..., up to the first one inside the dataset (or one past range of them)
Walk(perm, forward, passed, i) ==
    LET next == IF forward THEN feistel_forward(perm, i)
                ELSE feistel_inverse(perm, i)
        now  == Append(passed, next)
    IN  IF next < perm.dataset_size \/ Len(now) > perm.range THEN now
        ELSE Walk(perm, forward, now, next)

\* C29: for an initialised permutation and an index in [0, N), the cycle
\* walk of apply and of inverse ends on an index of the dataset after at most
\* range Feistel applications; the call returns that index, not the mod N
\* fallback, and does not set the domain flag (nor any other flag).
C29_WalkEndsBeforeTheCap ==
    (pm.initialized /\ pm.dataset_size > 1 /\ pcall.op \in {"apply", "inverse"}
        /\ pcall.index \in Indices) =>
        LET walk == Walk(pm, pcall.op = "apply", <<>>, pcall.index)
        IN  /\ Len(walk) <= pm.range
            /\ walk[Len(walk)] \in Indices
            /\ pcall.val = walk[Len(walk)]
            /\ pcall.faults = NoFaults

\* inverse walked over three or more Feistel applications before it came
\* back into the dataset, and the index it returned is not the one the
\* fallback would have returned
C29_LongWalk ==
    /\ pm.initialized
    /\ pcall.op = "inverse" /\ pcall.index \in Indices
    /\ Len(Walk(pm, FALSE, <<>>, pcall.index)) >= 3
    /\ pcall.val # pcall.index % pm.dataset_size
    /\ pcall.faults = NoFaults


(***************************************************************************)
(* The batches of one epoch (SpecBatch).                                   *)
(***************************************************************************)

\* ceil(N / B) of the caller's batch context, as an integer
StepsOfEpoch ==
    SmallOfMag(MagDivMod(MagAdd(MagOfNat(bctx.perm.dataset_size),
                                MagSub(bctx.batch_size, <<1>>)),
                         bctx.batch_size).q)

\* global step t of epoch e
GlobalStep(e, t) == MagOfNat(e * StepsOfEpoch + t)

\* the outcome of a query without trap; there is one unless every outcome traps
Untrapped(outs) == CHOOSE o \in outs : ~o.trap

\* the first get_size(step) entries of get_indices(step)
BatchOf(step) ==
    LET size == SmallOfMag(Untrapped(ct_batch_get_size(bctx, step)).size)
        got  == Untrapped(ct_batch_get_indices(bctx, step, FALSE, NoFaults))
    IN  SubSeq(got.indices, 1, size)

RECURSIVE BatchesFrom(_, _, _)
\* the batches of epoch e from its step Len(done) on, each after done
BatchesFrom(e, done, sofar) ==
    IF Len(done) >= StepsOfEpoch THEN sofar
    ELSE LET batch == BatchOf(GlobalStep(e, Len(done)))
         IN  BatchesFrom(e, Append(done, Len(batch)), sofar \o batch)

\* the places in the batches of an epoch, one after another, that hold v
PlacesOf(batches, v) == {k \in 1..Len(batches) : batches[k] = v}

\* C28: for every dataset size N >= 1, batch size B >= 1 and epoch that
\* ct_batch_init accepts, over the ceil(N/B) steps of one epoch both queries
\* return, get_indices holds at least get_size entries, and the first
\* get_size(step) entries of get_indices(step) together hold every dataset
\* index of [0, N) exactly once and nothing else.
C28_EpochCoversDataset ==
    (bctx.perm.initialized /\ pcall.op \in {"batch_init", "get_indices"}) =>
        \A e \in 0..1 :
            /\ \A t \in 0..StepsOfEpoch - 1 :
                  /\ \A o \in ct_batch_get_size(bctx, GlobalStep(e, t)) : ~o.trap
                  /\ \A o \in ct_batch_get_indices(bctx, GlobalStep(e, t), FALSE,
                                                   NoFaults) :
                        /\ ~o.trap
                        /\ o.ret = CT_OK
                        /\ MagCmp(Untrapped(ct_batch_get_size(
                                      bctx, GlobalStep(e, t))).size,
                                  MagOfNat(Len(o.indices))) <= 0
            /\ LET batches == BatchesFrom(e, <<>>, <<>>)
               IN  /\ Len(batches) = bctx.perm.dataset_size
                   /\ \A v \in 0..bctx.perm.dataset_size - 1 :
                          Cardinality(PlacesOf(batches, v)) = 1

\* the context was initialised with the largest batch size, N + B - 1 was
\* taken modulo 2^32, and get_indices divided the step by zero steps per
\* epoch
C28_IndicesDividedByZero ==
    /\ bctx.perm.initialized
    /\ bctx.perm.dataset_size > 1
    /\ bctx.batch_size = UINT32_MAX
    /\ bctx.steps_per_epoch = <<>>
    /\ pcall.op = "get_indices"
    /\ pcall.trap

\* the same statement for the contexts whose N + B - 1 fits 32 bits
EpochCoversDatasetUnwrapped ==
    MagCmp(MagAdd(MagOfNat(bctx.perm.dataset_size), bctx.batch_size),
           MagPow2(32)) <= 0
        => C28_EpochCoversDataset

\* a partial last batch was returned
PartialLastBatch ==
    /\ pcall.op = "get_indices" /\ bctx.perm.initialized
    /\ bctx.perm.dataset_size = 10 /\ bctx.batch_size = <<4>>
    /\ pcall.step = <<2>>
    /\ BatchOf(pcall.step) = SubSeq(pcall.indices, 1, 2)


(***************************************************************************)
(* The variants of the reduction (SpecReduce).                             *)
(***************************************************************************)

\* the outcomes of the untraced 64-bit reduction of the caller's tree and values
Untraced == ct_reduction_reduce_64(rtree, rd.values, NoFaults)

\* C27: for every initialised tree and every input array, the traced
\* reduction returns the same value as the untraced 64-bit reduction of the
\* same tree and input, with a callback or without one.
C27_TracedEqualsUntraced ==
    (rd.pc = "traced" /\ rd.ret = CT_OK) =>
        \A o \in Untraced : ~o.trap => o.val = rd.out.val

\* an array of SpillLeaves ones was reduced through its tree, whose nodes do
\* not fit the accumulators on the stack: the traced reduction returned 0,
\* the untraced one returns the sum
C27_TracedGivesUp ==
    /\ rd.pc = "traced" /\ rd.ret = CT_OK
    /\ rtree.num_leaves = SpillLeaves
    /\ rd.values.at = [k \in 1..SpillLeaves |-> ZInt(1)]
    /\ rd.out.val = ZInt(0)
    /\ rd.out.faults.domain = 1
    /\ \A o \in Untraced : ~o.trap /\ o.val = ZInt(SpillLeaves)

\* the same statement for the trees whose nodes fit the accumulators on the
\* stack, and there the callback sees every node once, in index order
TracedEqualsUntracedOnStack ==
    (rd.pc = "traced" /\ rd.ret = CT_OK /\ rtree.num_nodes <= MAX_STACK_NODES) =>
        /\ \A o \in Untraced : ~o.trap => o.val = rd.out.val /\ o.faults = rd.out.faults
        /\ rd.trace # <<>> =>
              /\ Len(rd.trace) = rtree.num_nodes
              /\ \A k \in 1..Len(rd.trace) : rd.trace[k][1] = k - 1


(***************************************************************************)
(* The fault record a reduction leaves (SpecReduce).                        *)
(***************************************************************************)

RECURSIVE SumOfSign(_, _, _, _)
\* the sum of the values of vs after the first lo up to the hi-th that are
\* negative (neg) or are not
SumOfSign(vs, neg, lo, hi) ==
    IF hi <= lo THEN ZInt(0)
    ELSE IF hi = lo + 1
    THEN (IF ZLt(vs[hi], ZInt(0)) = neg THEN vs[hi] ELSE ZInt(0))
    ELSE ZAdd(SumOfSign(vs, neg, lo, (lo + hi) \div 2),
              SumOfSign(vs, neg, (lo + hi) \div 2, hi))

\* no sum of values of vs, taken in any order, leaves int64_t
NoSumSaturates(vs) ==
    /\ InInt64(SumOfSign(vs, FALSE, 0, Len(vs)))
    /\ InInt64(SumOfSign(vs, TRUE, 0, Len(vs)))

\* a chain the training loop has initialised, about to take its first step
RunningChain == ct_merkle_init(FALSE, ZeroCtx, W1, NullConfig, 1).ctx

\* the step the training loop takes after the reduction, handed the fault
\* record the reduction left
StepAfterReduce == ct_merkle_step(FALSE, RunningChain, W1, B1, NullRecord, rd.faults)

\* C26: for every tree initialised with a leaf count n in [1, 65536] and every
\* input whose sums do not saturate 64 bits, the 64-bit and the 32-bit
\* reduction return without setting any fault flag, so that the Merkle step
\* handed the fault record afterwards does not fault the chain.
C26_ReduceSetsNoFault ==
    (rd.pc \in {"reduced", "reduced32", "trapped", "trapped32"}
     /\ rd.accum = <<>> /\ NoSumSaturates(rd.values.at)) =>
        /\ rd.pc \in {"reduced", "reduced32"}
        /\ rd.faults = NoFaults
        /\ StepAfterReduce.ret = CT_OK
        /\ ~StepAfterReduce.ctx.faulted

\* SpillLeaves ones were reduced as int32_t through their tree, whose nodes
\* do not fit the accumulators on the stack: the sum is right, the domain
\* flag is set, and the step that follows faults the chain
C26_SpilledReduceFaultsTheChain ==
    /\ rd.pc = "reduced32"
    /\ rtree.num_leaves = SpillLeaves
    /\ rd.values.at = [k \in 1..SpillLeaves |-> ZInt(1)]
    /\ rd.out.val = ZInt(SpillLeaves)
    /\ rd.faults = FaultFlags(0, 0, 0, 1, 0)
    /\ StepAfterReduce.ret = CT_ERR_FAULT
    /\ StepAfterReduce.ctx.faulted

\* the same statement for the trees whose nodes fit the accumulators on the
\* stack and the values other than INT64_MIN, whose absolute value saturates
ReduceSetsNoFaultOnStack ==
    (rd.pc \in {"reduced", "reduced32", "trapped", "trapped32"}
     /\ rd.accum = <<>> /\ NoSumSaturates(rd.values.at)
     /\ rtree.num_nodes <= MAX_STACK_NODES
     /\ \A k \in 1..Len(rd.values.at) : rd.values.at[k] # INT64_MIN) =>
        /\ rd.pc \in {"reduced", "reduced32"}
        /\ rd.faults = NoFaults
        /\ ~StepAfterReduce.ctx.faulted


(***************************************************************************)
(* Claims about stored checkpoints (SpecCheckpoint)                        *)
(***************************************************************************)

\* the bytes "CTCK"
MagicBytes == <<67, 84, 67, 75>>

\* the version stored in the buffer is above the library's
StoredVersionAbove ==
    \/ wire.at[5] > CT_CHECKPOINT_VERSION
    \/ \E i \in 6..8 : wire.at[i] > 0

\* C25: deserializing a checkpoint buffer of at least 152 bytes returns the
\* hash error when its magic is not CTCK, the config error when the magic
\* matches and the stored version is above the library's supported version,
\* and ok in every other case.
C25_DeserializeStatus ==
    (call.op = "deserialize" /\ ~call.nullarg /\ call.size >= 152) =>
        call.ret = IF SubSeq(wire.at, 1, 4) # MagicBytes THEN CT_ERR_HASH
                   ELSE IF StoredVersionAbove THEN CT_ERR_CONFIG
                   ELSE CT_OK

\* a buffer of 153 bytes whose version had been overwritten with 0xFFFFFFFF
\* was deserialized: the config error, and the checkpoint has the version
C25_VersionOfAllOnes ==
    /\ call.op = "deserialize" /\ ~call.nullarg /\ call.size = 153
    /\ SubSeq(wire.at, 1, 8) = MagicBytes \o <<255, 255, 255, 255>>
    /\ call.ret = CT_ERR_CONFIG
    /\ ckpt.version = MagSub(MagPow2(32), <<1>>)

\* a checkpoint read back from a buffer nobody altered is the checkpoint
\* that was written, and a buffer shorter than 152 bytes is refused
ReadBackWhatWasWritten ==
    (call.op = "deserialize" /\ ~call.nullarg) =>
        /\ call.size < CT_CHECKPOINT_SERIAL_SIZE <=> call.ret = CT_ERR_MEMORY
        /\ (~call.altered /\ call.ret = CT_OK) =>
              ct_checkpoint_serialize(ckpt, Buffer(wire.at), call.size).buffer.at
                 = wire.at

\* a checkpoint of a chain at step 1 and epoch 1 was read back
ReadBackAtStepOne ==
    /\ call.op = "deserialize" /\ call.ret = CT_OK /\ ~call.altered
    /\ ckpt.step = 1 /\ ckpt.epoch = 1 /\ ckpt.timestamp = 1000
    /\ ckpt.prng_state = Prng(42, 0, 0)


\* C22: restore from a checkpoint, applied to a context in any state
\* (uninitialised, running or faulted), leaves it initialised with
\* current_hash, step and epoch equal to the checkpoint's, and faulted if and
\* only if the checkpoint's saved flags carry overflow, underflow, div_zero or
\* domain.
C22_RestoreTakesTheCheckpoint ==
    (call.op = "restore" /\ call.ret = CT_OK) =>
        /\ ctx.initialized
        /\ ctx.current_hash = ckpt.merkle_hash
        /\ ctx.step = ckpt.step
        /\ ctx.epoch = ckpt.epoch
        /\ ctx.faulted <=> \/ ckpt.fault_flags.overflow = 1
                           \/ ckpt.fault_flags.underflow = 1
                           \/ ckpt.fault_flags.div_zero = 1
                           \/ ckpt.fault_flags.domain = 1

\* a chain that had faulted was restored from a checkpoint taken at step 1
\* whose stored flags had been replaced by grad_floor alone: it is at step 1
\* and not faulted
C22_FaultedChainRestored ==
    /\ call.op = "restore" /\ call.ret = CT_OK /\ call.pre = "faulted"
    /\ ckpt.fault_flags = FaultFlags(0, 0, 0, 0, 1)
    /\ ckpt.step = 1 /\ ctx.step = 1 /\ ~ctx.faulted
    /\ ctx.current_hash # ZeroHash


(***************************************************************************)
(* Claims about replaying the chain (SpecAudit)                            *)
(***************************************************************************)

\* the chain hash before the next step, as a verifier that follows the chain
\* holds it: the genesis hash before the first step, then the step hash of
\* the record before, and the chain's own where no record was kept
PrecedingHash ==
    IF ctx.step = 0 THEN ctx.initial_hash
    ELSE IF trail # <<>> THEN trail[Len(trail)].rec.step_hash
    ELSE ctx.current_hash

\* C23: for any sequence of successful steps starting from init, every record
\* emitted verifies ok when the verifier is given the chain hash that preceded
\* the step (the genesis hash for the first) together with the weights and
\* the batch indices of the step.
C23_EmittedRecordsVerify ==
    [][call'.op = "step" /\ call'.ret = CT_OK /\ call'.out =>
          ct_merkle_verify_step(rec', HashPtr(PrecedingHash), call'.w, call'.b)
              = CT_OK]_vars

\* the records of the first and of the second step after init were emitted,
\* and each verifies: the first against the genesis hash, the second against
\* the step hash of the first
C23_TwoRecordsVerified ==
    /\ call.op = "step" /\ call.ret = CT_OK /\ call.out
    /\ Len(trail) = 2 /\ trail[1].rec.step = 0 /\ trail[2].rec = rec
    /\ ct_merkle_verify_step(trail[1].rec, HashPtr(ctx.initial_hash),
                             trail[1].w, trail[1].b) = CT_OK
    /\ ct_merkle_verify_step(rec, HashPtr(trail[1].rec.step_hash),
                             trail[2].w, trail[2].b) = CT_OK
    /\ ctx.initial_hash # trail[1].rec.step_hash


RECURSIVE StepsReplayed(_, _, _, _)
\* the context after the steps are taken on it in turn, each handed the
\* fault record and the record buffer
StepsReplayed(c, steps, faults, step_out) ==
    IF steps = <<>> THEN c
    ELSE StepsReplayed(ct_merkle_step(FALSE, c, Head(steps).w, Head(steps).b,
                                      step_out, faults).ctx,
                       Tail(steps), faults, step_out)

\* a second chain: the context c initialised with the inputs of the last init
\* and stepped with the inputs of the steps taken since
SecondChain(c, faults, step_out) ==
    StepsReplayed(ct_merkle_init(FALSE, c, script.w, script.cfg, script.seed).ctx,
                  script.steps, faults, step_out)

\* the contexts a second chain is initialised in: a fresh one, the first
\* chain's as it is now, and one that has faulted
SecondContexts == {ZeroCtx, ctx, [ctx EXCEPT !.initialized = TRUE, !.faulted = TRUE]}

\* the fault records without a fault
CleanFaults == {f \in StepFaultSamples : f.null \/ ~ct_has_fault(f)}

\* C24: two chains initialised with the same weights, config and seed and then
\* stepped with the same sequence of (weights, batch) inputs have identical
\* current_hash after init and after every successful step - whatever state
\* the context of the second was in before its init, and whatever clean fault
\* record and record buffer its steps are handed.
C24_SameInputsSameHash ==
    script.known =>
        \A c \in SecondContexts, f \in CleanFaults, step_out \in {rec, NullRecord} :
            /\ SecondChain(c, f, step_out).current_hash = ctx.current_hash
            /\ SecondChain(c, f, step_out).step = ctx.step

\* a context that had faulted at step 1 was initialised again with weights,
\* config and seed 2, and has taken two steps since
C24_SecondRunOfTwoSteps ==
    /\ script.known /\ era = "reinit" /\ script.seed = 2 /\ ~script.cfg.null
    /\ Len(script.steps) = 2 /\ ctx.step = 2
    /\ call.op = "step" /\ call.ret = CT_OK
    /\ SecondChain(ZeroCtx, NoFaults, NullRecord).current_hash = ctx.current_hash

\* C21: fault flags are sticky.  Across calls of the DVM primitives, the
\* accumulator, ct_stochastic_round, the reduction and the permutation that
\* share one fault record, a flag that is set stays set; only ct_clear_faults
\* turns a flag from set to clear.
C21_FlagsAreSticky ==
    [][\A k \in FlagNames :
          shared.faults[k] = 1 /\ shared'.faults[k] = 0 => shared'.last = "clear"]_vars

\* every layer has been called on a record with a flag set, the last call was
\* of the permutation, and the four flags the layers set are all set
C21_FlagsKeptAcrossLayers ==
    /\ shared.kinds = {"primitive", "accumulator", "prng", "reduction", "permutation"}
    /\ shared.last = "permutation" /\ ~shared.trap
    /\ \A k \in FlagNames \ {"grad_floor"} : shared.faults[k] = 1

====
